---------------------------- MODULE Spec2Model ----------------------------
(***************************************************************************)
(* A model of the OpenTelegram gateway (index.js, the unnamed part_003 of  *)
(* the sources, and the older client.js): the Telegram listeners, the      *)
(* authorization bootstrap, the session and model registries, the          *)
(* progress-tracked request executor and response delivery.                *)
(*                                                                         *)
(* Text is modelled as sequences of one-character strings, so that the     *)
(* string operations of the code (split, trim, slice, regex replace) are   *)
(* computed and not assumed.                                               *)
(***************************************************************************)
EXTENDS Integers, Sequences, FiniteSets, TLC

VARIABLES
    envFile,        \* the .env file: [exists, content]
    envBefore,      \* history: the .env file as it was before the bootstrap write
    allowedUsers,   \* the allow-list parsed at process start (array of strings)
    proc,           \* "running", "exited" (process.exit(0)) or "crashed"
    userSessions,   \* Map chatId -> sessionId
    userModels,     \* Map chatId -> model id
    modelIndex,     \* Map idx -> model, rebuilt by every catalog fetch
    hs,             \* the running listener invocations, one record per slot
    hist,           \* history: what was done on behalf of each chat
    calls,          \* history: the kinds of backend calls made in this run, the
                    \* first message that found the allow-list empty
    nItems,         \* number of listener invocations started so far
    scenario,       \* the environment of the run: which updates arrive, how many
                    \* at a time (fixed by Init)
    syncedSessions,     \* sync plugin: Map sessionId -> { topicId, pending }
    lastPostedContent,  \* sync plugin: Map sessionId -> { userContent, assistantContent }
    ev,             \* sync plugin: the running invocations of its event hook
    syncHist,       \* history: per session, the last two idle events handled one
                    \* after the other and the last post that succeeded
    nEvents         \* number of events the plugin's hook was invoked with

vars == <<envFile, envBefore, allowedUsers, proc, userSessions, userModels,
          modelIndex, hs, hist, calls, nItems, scenario,
          syncedSessions, lastPostedContent, ev, syncHist, nEvents>>

\* the bot process (part_003)
botVars == <<envFile, envBefore, allowedUsers, proc, userSessions, userModels,
             modelIndex, hs, hist, calls, nItems, scenario>>

\* the sync plugin, which runs inside the backend process (part_002)
syncVars == <<syncedSessions, lastPostedContent, ev, syncHist, nEvents>>

envVars == <<envFile, envBefore, allowedUsers, scenario>>

regVars == <<userSessions, userModels, modelIndex>>

-----------------------------------------------------------------------------
(* Strings *)

KEY == <<"T", "E", "L", "E", "G", "R", "A", "M", "_", "A", "L", "L", "O", "W", "E", "D", "_", "U", "S", "E", "R", "S">>

KEYEQ == KEY \o <<"=">>

COMMENT == <<"#", " ", "U", "s", "e", "r", " ", "w", "h", "i", "t", "e", "l", "i", "s", "t", " ", "-", " ", "o", "n", "l", "y", " ", "t", "h", "e", "s", "e", " ", "u", "s", "e", "r", " ", "I", "D", "s", " ", "c", "a", "n", " ", "u", "s", "e", " ", "t", "h", "e", " ", "b", "o", "t">>

NL == "\n"

CR == "\r"

\* JavaScript line terminators (for ^, $ and . of a regular expression)
IsLineTerminator(c) == c \in {NL, CR}

\* JavaScript white space (String.prototype.trim, \s)
IsWhiteSpace(c) == c \in {" ", "\t", NL, CR}

Min(a, b) == IF a < b THEN a ELSE b

Digits == <<"0", "1", "2", "3", "4", "5", "6", "7", "8", "9">>

\* String(n) / `${n}` of a non-negative integer
RECURSIVE StringOf(_)
StringOf(n) ==
    IF n < 10 THEN <<Digits[n + 1]>>
    ELSE StringOf(n \div 10) \o <<Digits[(n % 10) + 1]>>

StartsWithAt(s, p, pre) ==
    /\ p + Len(pre) - 1 <= Len(s)
    /\ SubSeq(s, p, p + Len(pre) - 1) = pre

\* s.slice(p) with 1-based p
Drop(s, p) == SubSeq(s, p, Len(s))

\* String.prototype.trim
TrimStart(s) ==
    LET at == {i \in 1..Len(s) : ~IsWhiteSpace(s[i])}
    IN  IF at = {} THEN <<>> ELSE Drop(s, CHOOSE i \in at : \A j \in at : i <= j)

TrimEnd(s) ==
    LET at == {i \in 1..Len(s) : ~IsWhiteSpace(s[i])}
    IN  IF at = {} THEN <<>> ELSE SubSeq(s, 1, CHOOSE i \in at : \A j \in at : j <= i)

Trim(s) == TrimEnd(TrimStart(s))

\* position of the first element of s at or after p that is in the set, or Len(s)+1
FindFrom(s, p, set) ==
    LET at == {i \in p..Len(s) : s[i] \in set}
    IN  IF at = {} THEN Len(s) + 1 ELSE CHOOSE i \in at : \A j \in at : i <= j

\* String.prototype.split on a one-character separator
RECURSIVE SplitOn(_, _)
SplitOn(s, sep) ==
    LET q == FindFrom(s, 1, {sep})
    IN  IF q > Len(s) THEN <<s>>
        ELSE <<SubSeq(s, 1, q - 1)>> \o SplitOn(Drop(s, q + 1), sep)

RECURSIVE JoinWith(_, _)
JoinWith(parts, sep) ==
    IF parts = <<>> THEN <<>>
    ELSE IF Len(parts) = 1 THEN parts[1]
    ELSE parts[1] \o sep \o JoinWith(Tail(parts), sep)

-----------------------------------------------------------------------------
(* The .env file and the allow-list *)

\* dotenv.config({ override: true }): the value the file gives the key, the last
\* assignment winning; a line is `KEY=value`, optionally indented, the value
\* ending at a # and trimmed.  [set |-> FALSE] when no line assigns the key.
DotenvLineValue(line) ==
    LET l == TrimStart(line)
    IN  IF StartsWithAt(l, 1, KEY)
           /\ StartsWithAt(TrimStart(Drop(l, Len(KEY) + 1)), 1, <<"=">>)
        THEN LET rest == Tail(TrimStart(Drop(l, Len(KEY) + 1)))
                 stop == FindFrom(rest, 1, {"#"})
             IN  [set |-> TRUE, val |-> Trim(SubSeq(rest, 1, stop - 1))]
        ELSE [set |-> FALSE, val |-> <<>>]

\* dotenv reads the file with every \r\n and every \r turned into \n
NotDropped(c) == c # ""

DotenvNewlines(s) ==
    SelectSeq([i \in 1..Len(s) |->
                  IF s[i] # CR THEN s[i]
                  ELSE IF i < Len(s) /\ s[i + 1] = NL THEN "" ELSE NL],
              NotDropped)

DotenvValue(file) ==
    IF ~file.exists THEN [set |-> FALSE, val |-> <<>>]
    ELSE LET lines == SplitOn(DotenvNewlines(file.content), NL)
             hits  == {i \in 1..Len(lines) : DotenvLineValue(lines[i]).set}
         IN  IF hits = {} THEN [set |-> FALSE, val |-> <<>>]
             ELSE DotenvLineValue(lines[CHOOSE i \in hits : \A j \in hits : j <= i])

IsListedId(id) == id # <<>> /\ id # <<"0">>

\* part_003:54-56
ParseAllowedUsers(env) ==
    IF env.set /\ env.val # <<>>
    THEN LET ids == SplitOn(env.val, ",")
         IN  SelectSeq([i \in 1..Len(ids) |-> Trim(ids[i])], IsListedId)
    ELSE <<>>

\* the regular expression without its m flag: ^ is the start of the text only
envVarRegexStart_NoMultiline(content) ==
    IF StartsWithAt(content, 1, KEYEQ) /\ FindFrom(content, 1, {NL, CR}) > Len(content)
    THEN 1 ELSE 0

\* /^TELEGRAM_ALLOWED_USERS=.*$/m : the position of the first match, 0 if none
envVarRegexStart(content) ==
    LET at == {p \in 1..Len(content) :
                 /\ (p = 1 \/ IsLineTerminator(content[p - 1]))
                 /\ StartsWithAt(content, p, KEYEQ)}
    IN  IF at = {} THEN 0 ELSE CHOOSE p \in at : \A q \in at : p <= q

\* the position just after the match that starts at p: .* stops at a line terminator
envVarRegexEnd(content, p) == FindFrom(content, p, {NL, CR})

\* part_003:65-87, the content written by addUserToEnvAndExit(userId)
addUserToEnv(file, userId) ==
    LET envContent == IF file.exists THEN file.content ELSE <<>>
        p == envVarRegexStart(envContent)
    IN  IF p # 0
        THEN SubSeq(envContent, 1, p - 1) \o KEYEQ \o StringOf(userId)
                \o Drop(envContent, envVarRegexEnd(envContent, p))
        ELSE envContent \o <<NL>> \o COMMENT \o <<NL>> \o KEYEQ \o StringOf(userId) \o <<NL>>

-----------------------------------------------------------------------------
(* Backend payloads, text extraction, chunking *)

\* part_003:627 (and 741, 893, 1129; client.js:168)
maxLen == 4000

\* a response or error payload of opencode.session.prompt
Payload(shape, items, text) == [shape |-> shape, items |-> items, text |-> text]

Part(type, text) == [type |-> type, text |-> text]

NoPayload == Payload("undefined", <<>>, <<>>)

NoResult == [kind |-> "none", payload |-> NoPayload]

IsTextPart(p) == p.type = "text"

\* .filter(p => p.type === 'text').map(p => p.text).join('\n')
JoinTextParts(items) ==
    LET texts == SelectSeq(items, IsTextPart)
    IN  JoinWith([i \in 1..Len(texts) |-> texts[i].text], <<NL>>)

\* part_003:605-623 (720-737, 865-886, 1106-1122): the text of a response
ExtractText(response) ==
    IF response.shape = "parts" THEN JoinTextParts(response.items)
    ELSE IF response.shape = "content-string" THEN response.text
    ELSE IF response.shape = "content-array" THEN JoinTextParts(response.items)
    ELSE <<>>

\* part_003:629-632: for (i = 0; i < length; i += maxLen) parts.push(slice(i, i + maxLen))
RECURSIVE SliceFrom(_, _)
SliceFrom(text, i) ==
    IF i >= Len(text) THEN <<>>
    ELSE <<SubSeq(text, i + 1, IF i + maxLen < Len(text) THEN i + maxLen ELSE Len(text))>>
            \o SliceFrom(text, i + maxLen)

\* part_003:628-638: the messages to send for a non-empty response text
ChunksOf(text) == IF Len(text) > maxLen THEN SliceFrom(text, 0) ELSE <<text>>

\* JSON.stringify of a string
RECURSIVE JsonEscape(_)
JsonEscape(s) ==
    IF s = <<>> THEN <<>>
    ELSE (IF Head(s) = "\"" THEN <<"\\", "\"">>
          ELSE IF Head(s) = "\\" THEN <<"\\", "\\">>
          ELSE IF Head(s) = NL THEN <<"\\", "n">>
          ELSE <<Head(s)>>) \o JsonEscape(Tail(s))

JsonString(s) == <<"\"">> \o JsonEscape(s) \o <<"\"">>

\* JSON.stringify(result.error): the error is a string or an object { message }
JsonStringify(err) ==
    IF err.shape = "err-str" THEN JsonString(err.text)
    ELSE <<"{">> \o JsonString(<<"m", "e", "s", "s", "a", "g", "e">>) \o <<":">> \o JsonString(err.text) \o <<"}">>

APIERROR == <<"O", "p", "e", "n", "C", "o", "d", "e", " ", "A", "P", "I", " ", "e", "r", "r", "o", "r", ":", " ">>

\* the prefix of the error notice of each listener (part_003:645, 759, 926, 1179)
ErrorPrefix(kind) ==
    IF kind = "voice" THEN <<"E", "r", "r", "o", "r", " ", "p", "r", "o", "c", "e", "s", "s", "i", "n", "g", " ", "v", "o", "i", "c", "e", " ", "m", "e", "s", "s", "a", "g", "e", ":", " ">>
    ELSE IF kind = "photo" THEN <<"E", "r", "r", "o", "r", " ", "p", "r", "o", "c", "e", "s", "s", "i", "n", "g", " ", "p", "h", "o", "t", "o", ":", " ">>
    ELSE IF kind = "video" THEN <<"X", " ", "E", "r", "r", "o", "r", " ", "p", "r", "o", "c", "e", "s", "s", "i", "n", "g", " ", "v", "i", "d", "e", "o", ":", " ">>
    ELSE IF kind = "new" THEN <<"E", "r", "r", "o", "r", " ", "c", "r", "e", "a", "t", "i", "n", "g", " ", "s", "e", "s", "s", "i", "o", "n", ":", " ">>
    ELSE IF kind = "sessions" THEN <<"E", "r", "r", "o", "r", " ", "l", "i", "s", "t", "i", "n", "g", " ", "s", "e", "s", "s", "i", "o", "n", "s", ":", " ">>
    ELSE <<"E", "r", "r", "o", "r", ":", " ">>

-----------------------------------------------------------------------------
(* The bot process: inbound updates, listener invocations *)

\* msg.from.id of the senders; NoFrom stands for an update without `from`
Users == {7, 42}

NoFrom == 0

Chats == {1, 2}

\* part_003:51 (seconds); message dates are drawn around it, 0 = no date
botStartTime == 2

Dates == {0, botStartTime - 1, botStartTime}

\* number of listener invocations of one run: of a run with every kind of update,
\* of a run that starts with an empty allow-list, of a run of one chat
MaxItems == 1

MaxBootItems == 2

MaxChatItems == 3

\* listener invocations that can be in flight at the same time
Slots == {1, 2}

NoSession == 0

NoModel == "none"

DefaultModel == "opencode/minimax-m2.5-free"

UNDEFINED == <<"u", "n", "d", "e", "f", "i", "n", "e", "d">>

\* `${userId}` in a template string
IdText(userId) == IF userId = NoFrom THEN UNDEFINED ELSE StringOf(userId)

\* the files a listener invocation has written and not removed
NoFiles == [voice |-> FALSE, upload |-> FALSE, video |-> FALSE, dir |-> FALSE, frames |-> {}]

\* the promise of extractFrames (part_003:223)
Pending == [status |-> "pending", message |-> <<>>]

Resolved == [status |-> "resolved", message |-> <<>>]

Rejected(message) == [status |-> "rejected", message |-> message]

\* part_003:222-289: the state of one call of extractFrames, before the call.
\* child: the subprocess ("running", "exited": ended and its close event not
\* yet emitted, "closed", "failed": could not be spawned); code: what the close
\* event carries; killed: SIGKILL was sent to the running subprocess; timer: the
\* 60-second timer; reports: the calls of onProgress; edits: the edits of the
\* progress message onProgress issued; data: the stdout chunks received
NoFfmpeg ==
    [child |-> "none", code |-> "", killed |-> FALSE, promise |-> Pending,
     timer |-> "none", videoDuration |-> 0, lastProgress |-> 0,
     reports |-> <<>>, edits |-> <<>>, data |-> 0, now |-> 0, lastProgressUpdate |-> 0]

\* part_003:678: the transcription object, before the call has returned one
NoTranscription == [returned |-> FALSE, text |-> <<>>]

Idle ==
    [kind |-> "none", pc |-> "idle", seq |-> 0, user |-> NoFrom, chat |-> 0, date |-> 0,
     arg |-> "", authz |-> "none", sessionId |-> NoSession,
     progressMsgId |-> <<>>, progressMessageId |-> <<>>, result |-> NoResult,
     error |-> <<>>, unhandled |-> FALSE, parts |-> <<>>, files |-> NoFiles,
     frameFiles |-> <<>>, transcription |-> NoTranscription, ffmpeg |-> NoFfmpeg,
     userModel |-> NoModel, models |-> <<>>, paths |-> {}, log |-> <<>>]

\* a call issued by a listener invocation, appended to its log
Op(op, what, arg) == [op |-> op, what |-> what, arg |-> arg]

Issue(r, op, what, arg) == [r EXCEPT !.log = Append(@, Op(op, what, arg))]

Free(h) == hs[h].pc \in {"idle", "done"}

Running == proc = "running"

\* an invocation of another slot is in flight for the same chat
Overlaps(h, chat) == \E g \in Slots \ {h} : ~Free(g) /\ hs[g].chat = chat

NoteStart(h, chat) ==
    [hist EXCEPT ![chat].overlap = @ \/ Overlaps(h, chat),
                 ![chat].items = @ + 1,
                 ![chat].first = IF @ = 0 THEN nItems + 1 ELSE @]

\* an error thrown outside every try block: the listener's promise rejects with
\* no handler; depending on the runtime the process goes on or is terminated
UnhandledRejection == {"running", "crashed"}

\* checkUserAuthorized with the age of the message tested after the first-user
\* branch instead of before it
checkUserAuthorized_StaleTestLate(r) ==
    LET userId  == r.user
        msgTime == r.date
    IN  IF Len(allowedUsers) = 0 /\ userId # NoFrom
        THEN Issue([r EXCEPT !.authz = "first", !.pc = "auth.first"],
                   "sendMessage", "first-user", IdText(userId))
        ELSE IF msgTime < botStartTime
        THEN [r EXCEPT !.authz = "stale", !.pc = "done"]
        ELSE IF userId # NoFrom
                /\ \E i \in 1..Len(allowedUsers) : allowedUsers[i] = StringOf(userId)
        THEN [r EXCEPT !.authz = "allowed", !.pc = "authorized"]
        ELSE Issue([r EXCEPT !.authz = "rejected", !.pc = "auth.unauth"],
                   "sendMessage", "unauthorized", IdText(userId))

\* checkUserAuthorized with every user admitted once the allow-list is not empty
checkUserAuthorized_AnyUser(r) ==
    LET userId  == r.user
        msgTime == r.date
    IN  IF msgTime < botStartTime
        THEN [r EXCEPT !.authz = "stale", !.pc = "done"]
        ELSE IF Len(allowedUsers) = 0 /\ userId # NoFrom
        THEN Issue([r EXCEPT !.authz = "first", !.pc = "auth.first"],
                   "sendMessage", "first-user", IdText(userId))
        ELSE IF userId # NoFrom /\ Len(allowedUsers) > 0
        THEN [r EXCEPT !.authz = "allowed", !.pc = "authorized"]
        ELSE Issue([r EXCEPT !.authz = "rejected", !.pc = "auth.unauth"],
                   "sendMessage", "unauthorized", IdText(userId))

\* part_003:94-129, checkUserAuthorized up to its first await (or its return):
\* the invocation record after it
checkUserAuthorized(r) ==
    LET userId  == r.user
        msgTime == r.date
    IN  IF msgTime < botStartTime
        THEN [r EXCEPT !.authz = "stale", !.pc = "done"]
        ELSE IF Len(allowedUsers) = 0 /\ userId # NoFrom
        THEN Issue([r EXCEPT !.authz = "first", !.pc = "auth.first"],
                   "sendMessage", "first-user", IdText(userId))
        ELSE IF userId # NoFrom
                /\ \E i \in 1..Len(allowedUsers) : allowedUsers[i] = StringOf(userId)
        THEN [r EXCEPT !.authz = "allowed", !.pc = "authorized"]
        ELSE Issue([r EXCEPT !.authz = "rejected", !.pc = "auth.unauth"],
                   "sendMessage", "unauthorized", IdText(userId))

MessageListeners ==
    {"start", "new", "sessions", "help", "model", "models", "message",
     "voice", "photo", "video"}

\* the argument a listener is invoked with: the text of a message (any text, or
\* none), the argument of /model
ArgsOf(kind) ==
    IF kind = "message" THEN {"text", ""}
    ELSE IF kind = "model" THEN {"", "p/a", "P", "zzz"}
    ELSE {""}

\* An update arrives and a listener is invoked with it (part_003:293-932: every
\* message listener starts with checkUserAuthorized)
Dispatch(h, kind, user, chat, date, arg) ==
    /\ Running
    /\ Free(h)
    /\ h \in scenario.slots
    /\ nItems < scenario.items
    /\ kind \in MessageListeners \cap scenario.kinds
    /\ hs' = [hs EXCEPT ![h] = checkUserAuthorized(
                 [Idle EXCEPT !.kind = kind, !.seq = nItems + 1, !.user = user,
                              !.chat = chat, !.date = date, !.arg = arg])]
    /\ hist' = NoteStart(h, chat)
    /\ nItems' = nItems + 1
    /\ calls' = IF calls.first = 0 /\ hs'[h].authz = "first"
                THEN [calls EXCEPT !.first = nItems + 1, !.firstUser = user]
                ELSE calls
    /\ UNCHANGED <<syncVars, envVars, proc, regVars>>

\* part_003:107-114: the first-user notice was sent (or failed to be sent)
AuthFirstReturn(h, ok) ==
    /\ Running
    /\ hs[h].pc = "auth.first"
    /\ IF ok
       THEN /\ envBefore' = envFile
            /\ envFile' = [exists |-> TRUE, content |-> addUserToEnv(envFile, hs[h].user)]
            /\ proc' = "exited"
            /\ hs' = [hs EXCEPT ![h] = Issue([@ EXCEPT !.pc = "exit"], "writeFileSync", "env", IdText(hs[h].user))]
       ELSE /\ proc' \in UnhandledRejection
            /\ hs' = [hs EXCEPT ![h].pc = "done", ![h].unhandled = TRUE]
            /\ UNCHANGED <<envFile, envBefore>>
    /\ UNCHANGED <<syncVars, allowedUsers, scenario, regVars, hist, calls, nItems>>

\* part_003:122-128: the not-authorized notice was sent (or failed to be sent)
AuthUnauthReturn(h, ok) ==
    /\ Running
    /\ hs[h].pc = "auth.unauth"
    /\ IF ok
       THEN /\ hs' = [hs EXCEPT ![h].pc = "done"]
            /\ UNCHANGED proc
       ELSE /\ proc' \in UnhandledRejection
            /\ hs' = [hs EXCEPT ![h].pc = "done", ![h].unhandled = TRUE]
    /\ UNCHANGED <<syncVars, envVars, regVars, hist, calls, nItems>>

-----------------------------------------------------------------------------
(* Session registry, request executor, delivery: the code shared by the    *)
(* message, voice, photo and video listeners                               *)

\* the message of an error raised by the transport, the backend client or a tool
FAILED == <<"f", "a", "i", "l", "e", "d">>

RecordCall(kind) == [calls EXCEPT !.made = @ \cup {kind}]

\* the catch block of a listener (part_003:643-646, 757-760, 915-927, 1165-1180)
Catch(r, message) ==
    IF r.kind = "video" /\ r.progressMsgId # <<>>
    THEN Issue([r EXCEPT !.pc = "video.catch.delete", !.error = message],
               "deleteMessage", "progress", r.progressMsgId)
    ELSE Issue([r EXCEPT !.pc = "err.send", !.error = message],
               "sendMessage", "error", ErrorPrefix(r.kind) \o message)

\* getUserModel with one selection for the whole process
getUserModel_AnyChat(chatId) ==
    IF \E c \in Chats : userModels[c] # NoModel
    THEN userModels[CHOOSE c \in Chats : userModels[c] # NoModel]
    ELSE DefaultModel

\* part_003:131-134
getUserModel(chatId) ==
    IF userModels[chatId] # NoModel THEN userModels[chatId] ELSE DefaultModel

\* part_003:592-594 (710, 844, 1087) and 173-178: the model of the chat is looked
\* up, streamWithProgress sends its progress message
StreamStart(r) ==
    Issue([r EXCEPT !.pc = "swp.create", !.userModel = getUserModel(r.chat)],
          "sendMessage", "processing", <<>>)

\* part_003:579-589 (697-707, 807-820, 1042-1054): look the session up, create
\* one when there is none
GetOrCreateSession(h) ==
    /\ Running
    /\ hs[h].pc = "session"
    /\ LET chatId == hs[h].chat
           sessionId == userSessions[chatId]
       IN  IF sessionId = NoSession
           THEN /\ hs' = [hs EXCEPT ![h] = Issue([@ EXCEPT !.pc = "session.create"],
                                                 "session.create", "", <<>>)]
                /\ hist' = [hist EXCEPT ![chatId].creates = @ + 1]
                /\ calls' = RecordCall("create")
           ELSE /\ hs' = [hs EXCEPT ![h] = Issue([@ EXCEPT !.pc = "typing",
                                                          !.sessionId = sessionId],
                                                 "sendChatAction", "typing", <<>>)]
                /\ UNCHANGED <<hist, calls>>
    /\ UNCHANGED <<syncVars, envVars, proc, regVars, nItems>>

\* SessionCreateReturn without userSessions.set: the new session is used and
\* not stored
SessionCreateReturn_NotStored(h, ok) ==
    /\ Running
    /\ hs[h].pc = "session.create"
    /\ IF ok
       THEN LET newId == calls.sessions + 1
            IN  /\ calls' = [calls EXCEPT !.sessions = newId]
                /\ hist' = [hist EXCEPT ![hs[h].chat].created = @ + 1]
                /\ hs' = [hs EXCEPT ![h] =
                            Issue([@ EXCEPT !.pc = "typing", !.sessionId = newId],
                                  "sendChatAction", "typing", <<>>)]
       ELSE /\ hs' = [hs EXCEPT ![h] = Catch(@, FAILED)]
            /\ UNCHANGED <<calls, hist>>
    /\ UNCHANGED <<syncVars, envVars, proc, regVars, nItems>>

\* SessionCreateReturn that looks at the map again before it stores
SessionCreateReturn_Recheck(h, ok) ==
    /\ Running
    /\ hs[h].pc = "session.create"
    /\ IF ok
       THEN LET newId == calls.sessions + 1
                stored == userSessions[hs[h].chat]
                used == IF stored = NoSession THEN newId ELSE stored
            IN  /\ calls' = [calls EXCEPT !.sessions = newId]
                /\ userSessions' = [userSessions EXCEPT ![hs[h].chat] = used]
                /\ hist' = [hist EXCEPT ![hs[h].chat].created = @ + 1]
                /\ hs' = [hs EXCEPT ![h] =
                            Issue(Issue([@ EXCEPT !.pc = "typing", !.sessionId = used],
                                        "userSessions.set", "", <<used>>),
                                  "sendChatAction", "typing", <<>>)]
       ELSE /\ hs' = [hs EXCEPT ![h] = Catch(@, FAILED)]
            /\ UNCHANGED <<calls, userSessions, hist>>
    /\ UNCHANGED <<syncVars, envVars, proc, userModels, modelIndex, nItems>>

\* part_003:583-589: opencode.session.create returned (or threw)
SessionCreateReturn(h, ok) ==
    /\ Running
    /\ hs[h].pc = "session.create"
    /\ IF ok
       THEN LET newId == calls.sessions + 1
            IN  /\ calls' = [calls EXCEPT !.sessions = newId]
                /\ userSessions' = [userSessions EXCEPT ![hs[h].chat] = newId]
                /\ hist' = [hist EXCEPT ![hs[h].chat].created = @ + 1]
                /\ hs' = [hs EXCEPT ![h] =
                            Issue(Issue([@ EXCEPT !.pc = "typing", !.sessionId = newId],
                                        "userSessions.set", "", <<newId>>),
                                  "sendChatAction", "typing", <<>>)]
       ELSE /\ hs' = [hs EXCEPT ![h] = Catch(@, FAILED)]
            /\ UNCHANGED <<calls, userSessions, hist>>
    /\ UNCHANGED <<syncVars, envVars, proc, userModels, modelIndex, nItems>>

\* part_003:589-600 (and 1054-1084 for a video, which first deletes its own
\* progress message): the typing indicator was sent
TypingReturn(h, ok) ==
    /\ Running
    /\ hs[h].pc = "typing"
    /\ hs' = [hs EXCEPT ![h] =
                IF ~ok THEN Catch(@, FAILED)
                ELSE IF @.kind = "video"
                THEN Issue([@ EXCEPT !.pc = "video.delprog"],
                           "deleteMessage", "progress", @.progressMsgId)
                ELSE StreamStart(@)]
    /\ UNCHANGED <<syncVars, envVars, proc, regVars, hist, calls, nItems>>

\* part_003:1078-1095: the video progress message is gone (errors ignored)
VideoDelProgReturn(h, ok) ==
    /\ Running
    /\ hs[h].pc = "video.delprog"
    /\ hs' = [hs EXCEPT ![h] = StreamStart([@ EXCEPT !.progressMsgId = <<>>])]
    /\ UNCHANGED <<syncVars, envVars, proc, regVars, hist, calls, nItems>>

\* a part of the body of a prompt: the text, or a file named by its number
\* (a frame's number; 0 for the text part and for the uploaded photo)
PromptPart(type, filename) == [type |-> type, filename |-> filename]

\* part_003:594-596, 714-716, 824-840, 1057-1076: the parts a listener submits
PromptParts(r) ==
    IF r.kind = "video"
    THEN <<PromptPart("text", 0)>>
            \o [i \in 1..Len(r.frameFiles) |-> PromptPart("file", r.frameFiles[i])]
    ELSE IF r.kind = "photo" THEN <<PromptPart("text", 0), PromptPart("file", 0)>>
    ELSE <<PromptPart("text", 0)>>

\* part_003:177-192: the progress message was sent (errors ignored), the prompt
\* is submitted
SwpCreateReturn(h, ok) ==
    /\ Running
    /\ hs[h].pc = "swp.create"
    /\ hs' = [hs EXCEPT ![h] =
                Issue([@ EXCEPT !.pc = "swp.prompt",
                                !.progressMessageId =
                                    IF ok THEN <<h, Len(hs[h].log)>> ELSE <<>>],
                      "session.prompt", "",
                      [id |-> @.sessionId, parts |-> PromptParts(@), model |-> @.userModel])]
    /\ hist' = [hist EXCEPT ![hs[h].chat].prompted = @ \cup {hs[h].sessionId}]
    /\ calls' = RecordCall("prompt")
    /\ UNCHANGED <<syncVars, envVars, proc, regVars, nItems>>

\* part_003:625-641 (739-755, 891-913, 1127-1153): send the response text, or
\* a notice when there is none
Deliver(r) ==
    LET response == r.result.payload
        responseText == ExtractText(response)
        visual == r.kind \in {"photo", "video"}
        deliverable == IF visual THEN responseText # <<>> /\ Trim(responseText) # <<>>
                       ELSE responseText # <<>>
        chunks == ChunksOf(responseText)
        notice == IF ~visual THEN "no-response"
                  ELSE IF response.shape = "parts" /\ response.items = <<>>
                  THEN "empty-response"
                  ELSE IF response.shape = "undefined" THEN "null-response"
                  ELSE "no-text"
    IN  IF deliverable
        THEN Issue([r EXCEPT !.pc = "deliver.send", !.parts = Tail(chunks)],
                   "sendMessage", "chunk", Head(chunks))
        ELSE Issue([r EXCEPT !.pc = "deliver.send", !.parts = <<>>],
                   "sendMessage", notice, <<>>)

\* part_003:1099: JSON.stringify(aiResponse, null, 2).substring(0, 1000) when the
\* response is undefined
TYPEERROR == <<"C", "a", "n", "n", "o", "t", " ", "r", "e", "a", "d", " ", "p", "r", "o", "p", "e", "r", "t", "i", "e", "s", " ", "o", "f", " ", "u", "n", "d", "e", "f", "i", "n", "e", "d", " ", "(", "r", "e", "a", "d", "i", "n", "g", " ", "'", "s", "u", "b", "s", "t", "r", "i", "n", "g", "'", ")">>

\* the catch block of streamWithProgress without its delete
SwpCatch_NoDelete(r) == Catch(r, r.error)

\* part_003:208-217: the catch block of streamWithProgress
SwpCatch(r) ==
    IF r.progressMessageId # <<>>
    THEN Issue([r EXCEPT !.pc = "swp.catch.delete"],
               "deleteMessage", "processing", r.progressMessageId)
    ELSE Catch(r, r.error)

\* streamWithProgress without the test of result.error
SwpAfterDelete_NoErrorCheck(r) == Deliver(r)

\* part_003:203-207: after the progress message was deleted
SwpAfterDelete(r) ==
    IF r.result.kind = "inband"
    THEN SwpCatch([r EXCEPT !.error = APIERROR \o JsonStringify(r.result.payload)])
    ELSE IF r.kind = "video" /\ r.result.payload.shape = "undefined"
    THEN Catch(r, TYPEERROR)
    ELSE Deliver(r)

\* part_003:186-201, 208: opencode.session.prompt returned a result or threw
SwpPromptReturn(h, res) ==
    /\ Running
    /\ hs[h].pc = "swp.prompt"
    /\ LET r == [hs[h] EXCEPT !.result = res]
       IN  hs' = [hs EXCEPT ![h] =
                    IF res.kind = "throw" THEN SwpCatch([r EXCEPT !.error = FAILED])
                    ELSE IF r.progressMessageId # <<>>
                    THEN Issue([r EXCEPT !.pc = "swp.delete"],
                               "deleteMessage", "processing", r.progressMessageId)
                    ELSE SwpAfterDelete(r)]
    /\ UNCHANGED <<syncVars, envVars, proc, regVars, hist, calls, nItems>>

\* part_003:195-207: the delete of the progress message returned (errors ignored)
SwpDeleteReturn(h, ok) ==
    /\ Running
    /\ hs[h].pc = "swp.delete"
    /\ hs' = [hs EXCEPT ![h] = SwpAfterDelete(hs[h])]
    /\ UNCHANGED <<syncVars, envVars, proc, regVars, hist, calls, nItems>>

\* part_003:210-217: the delete in the catch block returned; the error is rethrown
SwpCatchDeleteReturn(h, ok) ==
    /\ Running
    /\ hs[h].pc = "swp.catch.delete"
    /\ hs' = [hs EXCEPT ![h] = Catch(hs[h], hs[h].error)]
    /\ UNCHANGED <<syncVars, envVars, proc, regVars, hist, calls, nItems>>

\* part_003:1155-1163: the video listener removes its scratch files; rmdirSync
\* throws on a directory that is not empty, and the error is logged
Cleanup(r) ==
    IF r.kind # "video" THEN r
    ELSE LET left == r.files.frames \ {r.frameFiles[i] : i \in 1..Len(r.frameFiles)}
         IN  [r EXCEPT !.files = [@ EXCEPT !.video = FALSE, !.frames = left,
                                           !.dir = (left # {})]]

\* part_003:633-641: a send of the delivery returned
DeliverSendReturn(h, ok) ==
    /\ Running
    /\ hs[h].pc = "deliver.send"
    /\ LET r == hs[h]
       IN  hs' = [hs EXCEPT ![h] =
                    IF ~ok THEN Catch(r, FAILED)
                    ELSE IF r.parts # <<>>
                    THEN Issue([r EXCEPT !.parts = Tail(r.parts)],
                               "sendMessage", "chunk", Head(r.parts))
                    ELSE [Cleanup(r) EXCEPT !.pc = "done"]]
    /\ UNCHANGED <<syncVars, envVars, proc, regVars, hist, calls, nItems>>

\* part_003:1170-1179: the video listener's catch block deleted its progress message
VideoCatchDeleteReturn(h, ok) ==
    /\ Running
    /\ hs[h].pc = "video.catch.delete"
    /\ LET r == hs[h]
       IN  hs' = [hs EXCEPT ![h] =
                    Issue([r EXCEPT !.pc = "err.send"],
                          "sendMessage", "error", ErrorPrefix(r.kind) \o r.error)]
    /\ UNCHANGED <<syncVars, envVars, proc, regVars, hist, calls, nItems>>

\* part_003:645 (759, 926, 1179): the error notice was sent, or its send failed
\* inside the catch block
ErrSendReturn(h, ok) ==
    /\ Running
    /\ hs[h].pc = "err.send"
    /\ IF ok
       THEN /\ hs' = [hs EXCEPT ![h].pc = "done"]
            /\ UNCHANGED proc
       ELSE /\ hs' = [hs EXCEPT ![h].pc = "done", ![h].unhandled = TRUE]
            /\ proc' \in UnhandledRejection
    /\ UNCHANGED <<syncVars, envVars, regVars, hist, calls, nItems>>

-----------------------------------------------------------------------------
(* The listeners *)

\* the chat now shows the keyboard the invocation has sent: the buttons m_0,
\* m_1, ... stand for the models of the list in this order (part_003:452-455,
\* 492-495)
NoteShown(r) ==
    IF r.log[Len(r.log)].what = "keyboard"
    THEN [hist EXCEPT ![r.chat].shown = r.log[Len(r.log)].arg]
    ELSE hist

\* an await outside every try block returned: part_003:298, 374, 417-435,
\* 449-473, 508, 538, 550, 656
BareReplyReturn(h, ok) ==
    /\ Running
    /\ hs[h].pc = "reply.bare"
    /\ IF ok
       THEN /\ hs' = [hs EXCEPT ![h].pc = "done"]
            /\ hist' = NoteShown(hs[h])
            /\ UNCHANGED proc
       ELSE /\ hs' = [hs EXCEPT ![h].pc = "done", ![h].unhandled = TRUE]
            /\ proc' \in UnhandledRejection
            /\ UNCHANGED hist
    /\ UNCHANGED <<syncVars, envVars, regVars, calls, nItems>>

\* the last send of a try block returned: part_003:330, 350-362, 689
TrySendReturn(h, ok) ==
    /\ Running
    /\ hs[h].pc = "final.send"
    /\ hs' = [hs EXCEPT ![h] = IF ok THEN [hs[h] EXCEPT !.pc = "done"]
                               ELSE Catch(hs[h], FAILED)]
    /\ UNCHANGED <<syncVars, envVars, proc, regVars, hist, calls, nItems>>

\* part_003:293-316 and 370-401: /start and /help
StartHelpListener(h) ==
    /\ Running
    /\ hs[h].pc = "authorized"
    /\ hs[h].kind \in {"start", "help"}
    /\ hs' = [hs EXCEPT ![h] = Issue([hs[h] EXCEPT !.pc = "reply.bare"],
                                     "sendMessage", hs[h].kind, <<>>)]
    /\ UNCHANGED <<syncVars, envVars, proc, regVars, hist, calls, nItems>>

\* part_003:319-325: /new
NewListener(h) ==
    /\ Running
    /\ hs[h].pc = "authorized"
    /\ hs[h].kind = "new"
    /\ hs' = [hs EXCEPT ![h] = Issue([hs[h] EXCEPT !.pc = "new.notice"],
                                     "sendMessage", "creating", <<>>)]
    /\ hist' = [hist EXCEPT ![hs[h].chat].newCmd = TRUE]
    /\ UNCHANGED <<syncVars, envVars, proc, regVars, calls, nItems>>

\* part_003:325-327
NewNoticeReturn(h, ok) ==
    /\ Running
    /\ hs[h].pc = "new.notice"
    /\ IF ok
       THEN /\ hs' = [hs EXCEPT ![h] = Issue([hs[h] EXCEPT !.pc = "new.create"],
                                             "session.create", "", <<>>)]
            /\ calls' = RecordCall("create")
       ELSE /\ hs' = [hs EXCEPT ![h] = Catch(hs[h], FAILED)]
            /\ UNCHANGED calls
    /\ UNCHANGED <<syncVars, envVars, proc, regVars, hist, nItems>>

\* NewCreateReturn that forgets the session of the chat when the create fails
NewCreateReturn_Forget(h, ok) ==
    /\ Running
    /\ hs[h].pc = "new.create"
    /\ IF ok
       THEN LET newId == calls.sessions + 1
            IN  /\ calls' = [calls EXCEPT !.sessions = newId]
                /\ userSessions' = [userSessions EXCEPT ![hs[h].chat] = newId]
                /\ hs' = [hs EXCEPT ![h] =
                            Issue(Issue([hs[h] EXCEPT !.pc = "final.send"],
                                        "userSessions.set", "", <<newId>>),
                                  "sendMessage", "created", <<newId>>)]
       ELSE /\ hs' = [hs EXCEPT ![h] = Catch(hs[h], FAILED)]
            /\ userSessions' = [userSessions EXCEPT ![hs[h].chat] = NoSession]
            /\ UNCHANGED calls
    /\ UNCHANGED <<syncVars, envVars, proc, userModels, modelIndex, hist, nItems>>

\* part_003:327-333
NewCreateReturn(h, ok) ==
    /\ Running
    /\ hs[h].pc = "new.create"
    /\ IF ok
       THEN LET newId == calls.sessions + 1
            IN  /\ calls' = [calls EXCEPT !.sessions = newId]
                /\ userSessions' = [userSessions EXCEPT ![hs[h].chat] = newId]
                /\ hs' = [hs EXCEPT ![h] =
                            Issue(Issue([hs[h] EXCEPT !.pc = "final.send"],
                                        "userSessions.set", "", <<newId>>),
                                  "sendMessage", "created", <<newId>>)]
       ELSE /\ hs' = [hs EXCEPT ![h] = Catch(hs[h], FAILED)]
            /\ UNCHANGED <<calls, userSessions>>
    /\ UNCHANGED <<syncVars, envVars, proc, userModels, modelIndex, hist, nItems>>

\* part_003:341-347: /sessions
SessionsListener(h) ==
    /\ Running
    /\ hs[h].pc = "authorized"
    /\ hs[h].kind = "sessions"
    /\ hs' = [hs EXCEPT ![h] = Issue([hs[h] EXCEPT !.pc = "sessions.list"],
                                     "session.list", "", <<>>)]
    /\ calls' = RecordCall("list")
    /\ UNCHANGED <<syncVars, envVars, proc, regVars, hist, nItems>>

\* part_003:347-366: the list came back (empty or not), or the call threw
SessionsListReturn(h, ok, empty) ==
    /\ Running
    /\ hs[h].pc = "sessions.list"
    /\ hs' = [hs EXCEPT ![h] =
                IF ~ok THEN Catch(hs[h], FAILED)
                ELSE Issue([hs[h] EXCEPT !.pc = "final.send"], "sendMessage",
                           IF empty THEN "no-sessions" ELSE "sessions", <<>>)]
    /\ UNCHANGED <<syncVars, envVars, proc, regVars, hist, calls, nItems>>

\* part_003:559-575: a message that is no command and no media
MessageListener(h) ==
    /\ Running
    /\ hs[h].pc = "authorized"
    /\ hs[h].kind = "message"
    /\ hs' = [hs EXCEPT ![h].pc = IF hs[h].arg = "" THEN "done" ELSE "session"]
    /\ UNCHANGED <<syncVars, envVars, proc, regVars, hist, calls, nItems>>

\* a model of the catalog: part_003:152-155
Model(id, name) == [id |-> id, name |-> name]

ModelA == Model("p/a", "P a")

ModelB == Model("p/b", "P b")

\* what opencode.config.providers() can answer
Catalogs == {<<>>, <<ModelA, ModelB>>, <<ModelB, ModelA>>}

\* name.toLowerCase().includes(arg.toLowerCase()) for the arguments of ModelArgs
NameIncludes(name, arg) == arg = "P"

\* FindModel that falls back to the first model of the list
FindModel_OrFirst(models, modelArg) ==
    LET hit == {i \in 1..Len(models) :
                  models[i].id = modelArg \/ NameIncludes(models[i].name, modelArg)}
    IN  IF hit = {} THEN (IF models = <<>> THEN 0 ELSE 1)
        ELSE CHOOSE i \in hit : \A j \in hit : i <= j

\* part_003:413: models.find(m => m.id === modelArg || name includes modelArg):
\* the index of the first match, 0 if none
FindModel(models, modelArg) ==
    LET hit == {i \in 1..Len(models) :
                  models[i].id = modelArg \/ NameIncludes(models[i].name, modelArg)}
    IN  IF hit = {} THEN 0 ELSE CHOOSE i \in hit : \A j \in hit : i <= j

\* part_003:404-436 and 440-446: /model and /models
ModelListener(h) ==
    /\ Running
    /\ hs[h].pc = "authorized"
    /\ hs[h].kind \in {"model", "models"}
    /\ IF hs[h].kind = "model" /\ hs[h].arg = ""
       THEN /\ hs' = [hs EXCEPT ![h] = Issue([hs[h] EXCEPT !.pc = "reply.bare"],
                                             "sendMessage", "current-model", <<>>)]
            /\ UNCHANGED calls
       ELSE /\ hs' = [hs EXCEPT ![h] = Issue([hs[h] EXCEPT !.pc = "providers"],
                                             "config.providers", "", <<>>)]
            /\ calls' = RecordCall("providers")
    /\ UNCHANGED <<syncVars, envVars, proc, regVars, hist, nItems>>

\* part_003:144-170 and its callers 412-428, 446-473, 489-507: the catalog came
\* back (and the index is rebuilt) or the fetch failed (and the list is empty)
ProvidersReturn(h, ok, catalog) ==
    /\ Running
    /\ hs[h].pc = "providers"
    /\ LET r == hs[h]
           models == IF ok THEN catalog ELSE <<>>
           found == FindModel(models, r.arg)
       IN  /\ modelIndex' = IF ok THEN catalog ELSE modelIndex
           /\ IF r.kind = "model" /\ found # 0
              THEN /\ userModels' = [userModels EXCEPT ![r.chat] = models[found].id]
                   /\ hs' = [hs EXCEPT ![h] =
                               Issue(Issue([r EXCEPT !.pc = "reply.bare"],
                                           "userModels.set", models[found].id, <<>>),
                                     "sendMessage", "model-set", <<>>)]
              ELSE /\ UNCHANGED userModels
                   /\ hs' = [hs EXCEPT ![h] =
                               IF r.kind = "model"
                               THEN Issue([r EXCEPT !.pc = "reply.bare"],
                                          "sendMessage", "model-not-found", <<>>)
                               ELSE IF r.kind = "models"
                               THEN Issue([r EXCEPT !.pc = "reply.bare", !.models = models],
                                          "sendMessage",
                                          IF models = <<>> THEN "unable" ELSE "keyboard",
                                          models)
                               ELSE Issue([r EXCEPT !.pc = "cb.answer", !.models = models],
                                          "answerCallbackQuery", "page", <<>>)]
    /\ UNCHANGED <<syncVars, envVars, proc, userSessions, hist, calls, nItems>>

CallbackData == {"page_0", "m_0", "m_1", "other"}

\* parseInt(data.replace('m_', ''), 10) for the data of CallbackData
CallbackIndex(data) == IF data = "m_0" THEN 0 ELSE 1

\* DispatchCallback with the index of a button looked up in the keyboard the
\* chat shows
DispatchCallback_Shown(h, user, chat, data) ==
    /\ Running
    /\ Free(h)
    /\ h \in scenario.slots
    /\ nItems < scenario.items
    /\ "callback" \in scenario.kinds
    /\ LET r == [Idle EXCEPT !.kind = "callback", !.seq = nItems + 1, !.user = user,
                             !.chat = chat, !.arg = data]
           idx == CallbackIndex(data)
       IN  IF data = "page_0"
           THEN /\ hs' = [hs EXCEPT ![h] = Issue([r EXCEPT !.pc = "providers"],
                                                 "config.providers", "", <<>>)]
                /\ calls' = RecordCall("providers")
                /\ UNCHANGED userModels
           ELSE IF data \in {"m_0", "m_1"}
           THEN IF idx + 1 <= Len(hist[chat].shown)
                THEN /\ userModels' = [userModels EXCEPT ![chat] = hist[chat].shown[idx + 1].id]
                     /\ hs' = [hs EXCEPT ![h] =
                                 Issue(Issue([r EXCEPT !.pc = "cb.answer"],
                                             "userModels.set", hist[chat].shown[idx + 1].id, <<>>),
                                       "answerCallbackQuery", "model-set", <<>>)]
                     /\ UNCHANGED calls
                ELSE /\ hs' = [hs EXCEPT ![h] =
                                 Issue([r EXCEPT !.pc = "reply.bare"],
                                       "answerCallbackQuery", "model-not-found", <<>>)]
                     /\ UNCHANGED <<calls, userModels>>
           ELSE /\ hs' = [hs EXCEPT ![h] = [r EXCEPT !.pc = "done"]]
                /\ UNCHANGED <<calls, userModels>>
    /\ hist' = NoteStart(h, chat)
    /\ nItems' = nItems + 1
    /\ UNCHANGED <<syncVars, envVars, proc, userSessions, modelIndex>>

\* part_003:477-555: a button press arrives and the callback_query listener runs
\* up to its first await
DispatchCallback(h, user, chat, data) ==
    /\ Running
    /\ Free(h)
    /\ h \in scenario.slots
    /\ nItems < scenario.items
    /\ "callback" \in scenario.kinds
    /\ LET r == [Idle EXCEPT !.kind = "callback", !.seq = nItems + 1, !.user = user,
                             !.chat = chat, !.arg = data]
           idx == CallbackIndex(data)
       IN  IF data = "page_0"
           THEN /\ hs' = [hs EXCEPT ![h] = Issue([r EXCEPT !.pc = "providers"],
                                                 "config.providers", "", <<>>)]
                /\ calls' = RecordCall("providers")
                /\ UNCHANGED userModels
           ELSE IF data \in {"m_0", "m_1"}
           THEN IF idx + 1 <= Len(modelIndex)
                THEN /\ userModels' = [userModels EXCEPT ![chat] = modelIndex[idx + 1].id]
                     /\ hs' = [hs EXCEPT ![h] =
                                 Issue(Issue([r EXCEPT !.pc = "cb.answer"],
                                             "userModels.set", modelIndex[idx + 1].id, <<>>),
                                       "answerCallbackQuery", "model-set", <<>>)]
                     /\ UNCHANGED calls
                ELSE /\ hs' = [hs EXCEPT ![h] =
                                 Issue([r EXCEPT !.pc = "reply.bare"],
                                       "answerCallbackQuery", "model-not-found", <<>>)]
                     /\ UNCHANGED <<calls, userModels>>
           ELSE /\ hs' = [hs EXCEPT ![h] = [r EXCEPT !.pc = "done"]]
                /\ UNCHANGED <<calls, userModels>>
    /\ hist' = NoteStart(h, chat)
    /\ nItems' = nItems + 1
    /\ UNCHANGED <<syncVars, envVars, proc, userSessions, modelIndex>>

\* part_003:507-521 and 533-548: the callback was answered; the message is edited
CallbackAnswerReturn(h, ok) ==
    /\ Running
    /\ hs[h].pc = "cb.answer"
    /\ IF ok
       THEN /\ hs' = [hs EXCEPT ![h] =
                        Issue([hs[h] EXCEPT !.pc = "reply.bare"], "editMessageText",
                              IF hs[h].arg = "page_0" THEN "keyboard" ELSE "model-changed",
                              hs[h].models)]
            /\ UNCHANGED proc
       ELSE /\ hs' = [hs EXCEPT ![h].pc = "done", ![h].unhandled = TRUE]
            /\ proc' \in UnhandledRejection
    /\ UNCHANGED <<syncVars, envVars, regVars, hist, calls, nItems>>

\* the most frames one extraction produces
MaxFrames == 6

\* what the transcription service can return as text
Transcripts == {<<>>, <<" ">>, <<"h", "i">>}

\* part_003:650-671, 764-796: a voice or photo listener starts; the attachment is
\* downloaded (sendChatAction, getFile, fetch, arrayBuffer)
MediaListener(h, configured) ==
    /\ Running
    /\ hs[h].pc = "authorized"
    /\ hs[h].kind \in {"voice", "photo"}
    /\ hs' = [hs EXCEPT ![h] =
                IF hs[h].kind = "voice" /\ ~configured
                THEN Issue([hs[h] EXCEPT !.pc = "reply.bare"],
                           "sendMessage", "voice-not-configured", <<>>)
                ELSE Issue([hs[h] EXCEPT !.pc = "download"], "download", "", <<>>)]
    /\ UNCHANGED <<syncVars, envVars, proc, regVars, hist, calls, nItems>>

\* part_003:931-956: the video listener sends its progress message
VideoListener(h) ==
    /\ Running
    /\ hs[h].pc = "authorized"
    /\ hs[h].kind = "video"
    /\ hs' = [hs EXCEPT ![h] = Issue([hs[h] EXCEPT !.pc = "video.progress"],
                                     "sendMessage", "progress", <<>>)]
    /\ UNCHANGED <<syncVars, envVars, proc, regVars, hist, calls, nItems>>

\* part_003:953-971: the progress message was sent; the video is downloaded
VideoProgressReturn(h, ok) ==
    /\ Running
    /\ hs[h].pc = "video.progress"
    /\ hs' = [hs EXCEPT ![h] =
                IF ok THEN Issue([hs[h] EXCEPT !.pc = "download",
                                               !.progressMsgId = <<h, Len(hs[h].log)>>],
                                 "download", "", <<>>)
                ELSE Catch(hs[h], FAILED)]
    /\ UNCHANGED <<syncVars, envVars, proc, regVars, hist, calls, nItems>>

\* the readings of Date.now() (milliseconds) the invocations of a run can
\* take: as many as there are invocations in flight at a time
Ticks == 1..Cardinality(scenario.slots)

\* part_003:674: path.join(os.tmpdir(), `voice_${Date.now()}.ogg`)
VoicePath(chatId, now) == <<"voice", now>>

\* part_003:801: `photo_${chatId}_${Date.now()}${fileExt}` in uploads
PhotoPath(chatId, now) == <<"photo", chatId, now>>

\* part_003:976: path.join(os.tmpdir(), `video_${chatId}_${Date.now()}${fileExt}`)
VideoPath(chatId, now) == <<"video", chatId, now>>

\* part_003:980: path.join(os.tmpdir(), `frames_${chatId}_${Date.now()}`)
FramesDir(chatId, now) == <<"frames", chatId, now>>

\* part_003:673-681, 798-806, 973-1016: the download returned at the time now;
\* the file is written under a name made of the time and handed to the next
\* stage
DownloadReturn(h, ok, now) ==
    /\ Running
    /\ hs[h].pc = "download"
    /\ LET r == hs[h]
       IN  hs' = [hs EXCEPT ![h] =
                    IF ~ok THEN Catch(r, FAILED)
                    ELSE IF r.kind = "voice"
                    THEN Issue([r EXCEPT !.pc = "voice.transcribe", !.files.voice = TRUE,
                                         !.paths = {VoicePath(r.chat, now)}],
                               "transcriptions.create", "", <<>>)
                    ELSE IF r.kind = "photo"
                    THEN [r EXCEPT !.pc = "session", !.files.upload = TRUE,
                                   !.paths = {PhotoPath(r.chat, now)}]
                    ELSE Issue([r EXCEPT !.pc = "video.extract", !.files.video = TRUE,
                                         !.files.dir = TRUE,
                                         !.paths = {VideoPath(r.chat, now),
                                                    FramesDir(r.chat, now)}],
                               "ffmpeg", "", <<>>)]
    /\ UNCHANGED <<syncVars, envVars, proc, regVars, hist, calls, nItems>>

\* VoiceTranscribeReturn with the empty test only (no trim): a transcript of
\* blanks goes on to the backend
VoiceTranscribeReturn_NoTrim(h, ok, transcribedText) ==
    /\ Running
    /\ hs[h].pc = "voice.transcribe"
    /\ LET r == hs[h]
           unlinked == [r EXCEPT !.files.voice = FALSE,
                                 !.transcription = [returned |-> TRUE,
                                                    text |-> transcribedText]]
       IN  hs' = [hs EXCEPT ![h] =
                    IF ~ok THEN Catch(r, FAILED)
                    ELSE IF transcribedText = <<>>
                    THEN Issue([unlinked EXCEPT !.pc = "final.send"],
                               "sendMessage", "could-not-transcribe", <<>>)
                    ELSE Issue([unlinked EXCEPT !.pc = "voice.shown"],
                               "sendMessage", "transcription", transcribedText)]
    /\ UNCHANGED <<syncVars, envVars, proc, regVars, hist, calls, nItems>>

\* part_003:678-694: the transcription returned a text, or the call failed
VoiceTranscribeReturn(h, ok, transcribedText) ==
    /\ Running
    /\ hs[h].pc = "voice.transcribe"
    /\ LET r == hs[h]
           unlinked == [r EXCEPT !.files.voice = FALSE,
                                 !.transcription = [returned |-> TRUE,
                                                    text |-> transcribedText]]
       IN  hs' = [hs EXCEPT ![h] =
                    IF ~ok THEN Catch(r, FAILED)
                    ELSE IF transcribedText = <<>> \/ Len(Trim(transcribedText)) = 0
                    THEN Issue([unlinked EXCEPT !.pc = "final.send"],
                               "sendMessage", "could-not-transcribe", <<>>)
                    ELSE Issue([unlinked EXCEPT !.pc = "voice.shown"],
                               "sendMessage", "transcription", transcribedText)]
    /\ UNCHANGED <<syncVars, envVars, proc, regVars, hist, calls, nItems>>

\* part_003:694-697: the transcription was shown to the user
VoiceShownReturn(h, ok) ==
    /\ Running
    /\ hs[h].pc = "voice.shown"
    /\ hs' = [hs EXCEPT ![h] = IF ok THEN [hs[h] EXCEPT !.pc = "session"]
                               ELSE Catch(hs[h], FAILED)]
    /\ UNCHANGED <<syncVars, envVars, proc, regVars, hist, calls, nItems>>

\* .sort(): the names frame_001.jpg, frame_002.jpg, ... (stood for by their
\* numbers) in ascending order
RECURSIVE SortFrames(_)
SortFrames(names) ==
    IF names = {} THEN <<>>
    ELSE LET first == CHOOSE f \in names : \A g \in names : f <= g
         IN  <<first>> \o SortFrames(names \ {first})

\* the listing without .slice(0, 5)
ReadFrameFiles_NoSlice(names) == SortFrames(names)

\* part_003:1024-1027: readdirSync(framesDir).filter(...).sort().slice(0, 5)
ReadFrameFiles(names) ==
    LET sorted == SortFrames(names)
    IN  SubSeq(sorted, 1, IF Len(sorted) < 5 THEN Len(sorted) ELSE 5)

\* part_003:1015-1039: ffmpeg ended; n frames are in the frames directory.  The
\* first five, in sorted order, are kept for the prompt
VideoExtractReturn(h, ok, n) ==
    /\ Running
    /\ hs[h].pc = "video.extract"
    /\ LET r == [hs[h] EXCEPT !.files.frames = 1..n]
           kept == ReadFrameFiles(r.files.frames)
       IN  hs' = [hs EXCEPT ![h] =
                    IF ~ok \/ n = 0 THEN Catch(r, FAILED)
                    ELSE Issue([r EXCEPT !.pc = "video.edit", !.frameFiles = kept],
                               "editMessageText", "progress", r.progressMsgId)]
    /\ UNCHANGED <<syncVars, envVars, proc, regVars, hist, calls, nItems>>

\* part_003:1036-1042: the progress message shows step 3
VideoEditReturn(h, ok) ==
    /\ Running
    /\ hs[h].pc = "video.edit"
    /\ hs' = [hs EXCEPT ![h] = IF ok THEN [hs[h] EXCEPT !.pc = "session"]
                               ELSE Catch(hs[h], FAILED)]
    /\ UNCHANGED <<syncVars, envVars, proc, regVars, hist, calls, nItems>>

-----------------------------------------------------------------------------
(* extractFrames, step by step (part_003:222-289).  VideoExtractReturn above
   is the whole call seen from the video listener; the actions below are the
   events inside it: the start, the chunks of the subprocess's progress
   stream, its end, its close event, the spawn error and the timer *)

\* chunks of stdout a call of extractFrames receives at most
MaxData == 3

\* msg.video.duration, in seconds
Durations == {0, 2}

\* the number after the first "out_time_ms=" of a chunk (microseconds)
OutTimes == {0, 500000, 1000000, 1990000, 3000000}

\* Math.round of num/den, for num >= 0 and den > 0
Round(num, den) == (2 * num + den) \div (2 * den)

\* part_003:250-252: Math.min(99, Math.round((currentTimeMs / 1000000 / videoDuration) * 100))
ProgressOf(currentTimeMs, videoDuration) ==
    Min(99, Round(currentTimeMs * 100, 1000000 * videoDuration))

Report(status, percent) == [status |-> status, percent |-> percent]

\* the milliseconds that pass between two events of one extraction
Delays == {0, 2000}

\* an edit of the progress message and the time (Date.now(), counted from the
\* start of the extraction) at which it is issued
Edit(status, percent, at) == [status |-> status, percent |-> percent, at |-> at]

\* part_003:983-1011: onProgress(status, percent) of the video listener, called
\* at the time f.now; a 'progress' report less than two seconds after the last
\* report that was not dropped is dropped
onProgress(f, status, percent) ==
    IF status = "progress" /\ f.now - f.lastProgressUpdate < 2000
    THEN [f EXCEPT !.reports = Append(@, Report(status, percent))]
    ELSE [f EXCEPT !.reports = Append(@, Report(status, percent)),
                   !.lastProgressUpdate = f.now,
                   !.edits = Append(@, Edit(status, percent, f.now))]

TIMEDOUT == <<"f", "f", "m", "p", "e", "g", " ", "t", "i", "m", "e", "d", " ", "o", "u", "t", " ", "a", "f", "t", "e", "r", " ", "6", "0", " ", "s", "e", "c", "o", "n", "d", "s">>

\* `ffmpeg failed with code ${code}: ${stderrData.slice(-500)}`, stderr empty
ExitCodeError(code) ==
    <<"f", "f", "m", "p", "e", "g", " ", "f", "a", "i", "l", "e", "d", " ", "w", "i", "t", "h", " ", "c", "o", "d", "e", " ">>
        \o (IF code = "null" THEN <<"n", "u", "l", "l">> ELSE <<code>>) \o <<":", " ">>

\* `ffmpeg failed to start: ${error.message}`
SpawnError == <<"f", "f", "m", "p", "e", "g", " ", "f", "a", "i", "l", "e", "d", " ", "t", "o", " ", "s", "t", "a", "r", "t", ":", " ">> \o FAILED

FAILEDTOEXTRACT == <<"F", "a", "i", "l", "e", "d", " ", "t", "o", " ", "e", "x", "t", "r", "a", "c", "t", " ", "f", "r", "a", "m", "e", "s", ":", " ">>

NOFRAMES == <<"N", "o", " ", "f", "r", "a", "m", "e", "s", " ", "c", "o", "u", "l", "d", " ", "b", "e", " ", "e", "x", "t", "r", "a", "c", "t", "e", "d", " ", "f", "r", "o", "m", " ", "t", "h", "e", " ", "v", "i", "d", "e", "o">>

\* part_003:222-241: extractFrames is called: onProgress('starting', 0), the
\* subprocess is spawned, and (287-290) the timer is set
ExtractFramesStart(h, videoDuration) ==
    /\ Running
    /\ hs[h].pc = "video.extract"
    /\ hs[h].ffmpeg.child = "none"
    /\ hs' = [hs EXCEPT ![h].ffmpeg =
                onProgress([@ EXCEPT !.child = "running", !.timer = "armed",
                                     !.videoDuration = videoDuration],
                           "starting", 0)]
    /\ UNCHANGED <<syncVars, envVars, proc, regVars, hist, calls, nItems>>

\* part_003:281-284: the 'error' event: the subprocess could not be spawned
FfmpegError(h) ==
    /\ Running
    /\ hs[h].ffmpeg.child = "running"
    /\ hs[h].ffmpeg.data = 0
    /\ hs' = [hs EXCEPT ![h].ffmpeg =
                [@ EXCEPT !.child = "failed",
                          !.promise = IF @.status = "pending" THEN Rejected(SpawnError)
                                      ELSE @]]
    /\ UNCHANGED <<syncVars, envVars, proc, regVars, hist, calls, nItems>>

\* FfmpegData without the test progress > lastProgress
FfmpegData_NoGuard(h, matched, currentTimeMs, dt) ==
    /\ Running
    /\ hs[h].ffmpeg.child \in {"running", "exited"}
    /\ hs[h].ffmpeg.data < MaxData
    /\ LET f == [hs[h].ffmpeg EXCEPT !.data = @ + 1, !.now = @ + dt]
           progress == ProgressOf(currentTimeMs, f.videoDuration)
       IN  hs' = [hs EXCEPT ![h].ffmpeg =
                    IF matched /\ f.videoDuration > 0
                    THEN onProgress([f EXCEPT !.lastProgress = progress],
                                    "progress", progress)
                    ELSE f]
    /\ UNCHANGED <<syncVars, envVars, proc, regVars, hist, calls, nItems>>

\* part_003:245-259: a chunk of the progress stream arrives (while the
\* subprocess runs, or after its end and before the close event)
FfmpegData(h, matched, currentTimeMs, dt) ==
    /\ Running
    /\ hs[h].ffmpeg.child \in {"running", "exited"}
    /\ hs[h].ffmpeg.data < MaxData
    /\ LET f == [hs[h].ffmpeg EXCEPT !.data = @ + 1, !.now = @ + dt]
           progress == IF f.videoDuration > 0
                       THEN ProgressOf(currentTimeMs, f.videoDuration) ELSE 0
       IN  hs' = [hs EXCEPT ![h].ffmpeg =
                    IF matched /\ f.videoDuration > 0 /\ progress > f.lastProgress
                    THEN onProgress([f EXCEPT !.lastProgress = progress],
                                    "progress", progress)
                    ELSE f]
    /\ UNCHANGED <<syncVars, envVars, proc, regVars, hist, calls, nItems>>

\* the subprocess ends by itself with an exit code, having written n frames
FfmpegExit(h, code, n) ==
    /\ Running
    /\ hs[h].ffmpeg.child = "running"
    /\ hs' = [hs EXCEPT ![h].ffmpeg.child = "exited", ![h].ffmpeg.code = code,
                        ![h].files.frames = 1..n]
    /\ UNCHANGED <<syncVars, envVars, proc, regVars, hist, calls, nItems>>

\* FfmpegTimeout without the kill
FfmpegTimeout_NoKill(h, n) ==
    /\ Running
    /\ hs[h].ffmpeg.timer = "armed"
    /\ hs' = [hs EXCEPT ![h].ffmpeg =
                [@ EXCEPT !.timer = "fired",
                          !.promise = IF @.status = "pending" THEN Rejected(TIMEDOUT)
                                      ELSE @]]
    /\ UNCHANGED <<syncVars, envVars, proc, regVars, hist, calls, nItems>>

\* part_003:286-290: the timer fires, 60 seconds after the start: SIGKILL ends
\* a subprocess that still runs (n frames written so far), and the promise is
\* rejected, which has no effect on a promise already settled
FfmpegTimeout(h, n) ==
    /\ Running
    /\ hs[h].ffmpeg.timer = "armed"
    /\ LET runs == hs[h].ffmpeg.child = "running"
       IN  hs' = [hs EXCEPT ![h].ffmpeg =
                    [@ EXCEPT !.timer = "fired",
                              !.killed = runs,
                              !.child = IF runs THEN "exited" ELSE @,
                              !.code = IF runs THEN "null" ELSE @,
                              !.promise = IF @.status = "pending" THEN Rejected(TIMEDOUT)
                                          ELSE @],
                          ![h].files.frames = IF runs THEN 1..n ELSE @]
    /\ UNCHANGED <<syncVars, envVars, proc, regVars, hist, calls, nItems>>

\* part_003:265-279: the 'close' event
FfmpegClose(h, dt) ==
    /\ Running
    /\ hs[h].ffmpeg.child = "exited"
    /\ LET f == [hs[h].ffmpeg EXCEPT !.child = "closed", !.now = @ + dt]
       IN  hs' = [hs EXCEPT ![h].ffmpeg =
                    IF f.code = "0"
                    THEN [onProgress(f, "done", 100) EXCEPT
                            !.promise = IF @.status = "pending" THEN Resolved ELSE @]
                    ELSE [f EXCEPT
                            !.promise = IF @.status = "pending"
                                        THEN Rejected(ExitCodeError(f.code)) ELSE @]]
    /\ UNCHANGED <<syncVars, envVars, proc, regVars, hist, calls, nItems>>

\* part_003:1015-1039: the promise of extractFrames is settled and the video
\* listener goes on: with the listing of the frames, or into its catch block
ExtractFramesReturn(h) ==
    /\ Running
    /\ hs[h].pc = "video.extract"
    /\ hs[h].ffmpeg.promise.status # "pending"
    /\ LET r == hs[h]
           kept == ReadFrameFiles(r.files.frames)
       IN  hs' = [hs EXCEPT ![h] =
                    IF r.ffmpeg.promise.status = "rejected"
                    THEN Catch(r, FAILEDTOEXTRACT \o r.ffmpeg.promise.message)
                    ELSE IF kept = <<>> THEN Catch(r, NOFRAMES)
                    ELSE Issue([r EXCEPT !.pc = "video.edit", !.frameFiles = kept],
                               "editMessageText", "progress", r.progressMsgId)]
    /\ UNCHANGED <<syncVars, envVars, proc, regVars, hist, calls, nItems>>

-----------------------------------------------------------------------------
(* The sync plugin (part_002:13-219): the event hook of TelegramSyncPlugin *)

\* session ids of the backend the plugin gets events for
SyncSessions == {1, 2}

\* topicId values the create-topic endpoint answers with
TopicIds == {11, 12}

\* invocations of the event hook in flight at a time, at most; a run uses the
\* slots scenario.hooks
EvSlots == {1, 2}

\* events per run
MaxEvents == 2

\* part_002:182, 197: the endpoints postSync is called with
SYNCSESSION == "/sync/session"

SYNCMESSAGE == "/sync/message"

DEFAULTTITLE == <<"O", "p", "e", "n", "C", "o", "d", "e", " ", "S", "e", "s", "s", "i", "o", "n">>

\* an event: its type, properties.sessionId and properties.session.id
\* (NoSession: the property is missing)
Event(type, sessionId, session) == [type |-> type, sessionId |-> sessionId, session |-> session]

Events ==
    {Event(type, s, NoSession) :
        type \in {"session.created", "session.idle", "session.deleted"},
        s \in SyncSessions \cup {NoSession}}
    \cup {Event(type, NoSession, s) :
        type \in {"session.created", "session.idle", "session.deleted"}, s \in SyncSessions}
    \cup {Event("message.updated", NoSession, NoSession)}

\* a message of a session as client.message.list returns it
Message(id, role, parts) == [id |-> id, role |-> role, parts |-> parts]

LongContent == [i \in 1..51 |-> Digits[(i % 7) + 1]]

UserHi == Message(1, "user", <<Part("text", <<"h", "i">>)>>)

AssistantYo == Message(2, "assistant", <<Part("tool", <<"x">>), Part("text", <<" ", "y">>),
                                          Part("text", <<"o", NL>>)>>)

UserLong == Message(3, "user", <<Part("text", LongContent)>>)

AssistantOk == Message(4, "assistant", <<Part("text", <<"o", "k">>)>>)

UserBlank == Message(5, "user", <<Part("text", <<" ">>)>>)

AssistantBlank == Message(6, "assistant", <<Part("tool", <<"x">>)>>)

\* what client.message.list answers (the empty list also stands for its failure)
MessageLists ==
    {<<>>, <<UserHi>>, <<AssistantYo, UserHi>>, <<UserHi, AssistantYo>>,
     <<UserHi, AssistantYo, UserLong>>, <<UserHi, AssistantYo, UserLong, AssistantOk>>,
     <<UserBlank, AssistantBlank>>, <<UserBlank, AssistantYo>>,
     <<UserHi, AssistantYo, AssistantOk>>}

\* part_002:72-76: content += part.text || '' over the text parts
RECURSIVE ConcatTextParts(_)
ConcatTextParts(parts) ==
    IF parts = <<>> THEN <<>>
    ELSE (IF Head(parts).type = "text" THEN Head(parts).text ELSE <<>>)
            \o ConcatTextParts(Tail(parts))

\* part_002:69-78
extractMessageContent(message) == Trim(ConcatTextParts(message.parts))

\* ScanExchange without the break of part_002:94
RECURSIVE ScanExchange_NoBreak(_, _, _)
ScanExchange_NoBreak(messages, i, lastAssistantIdx) ==
    IF i < 1 THEN [lastUserIdx |-> 0, lastAssistantIdx |-> lastAssistantIdx]
    ELSE LET msg == messages[i]
             assistantIdx == IF msg.role = "assistant" /\ lastAssistantIdx = 0
                             THEN i ELSE lastAssistantIdx
             rest == ScanExchange_NoBreak(messages, i - 1, assistantIdx)
         IN  IF msg.role = "user" /\ assistantIdx # 0 /\ rest.lastUserIdx = 0
             THEN [lastUserIdx |-> i, lastAssistantIdx |-> assistantIdx]
             ELSE rest

\* part_002:84-96: the loop from the last message down; indices from 1, 0 for -1
RECURSIVE ScanExchange(_, _, _)
ScanExchange(messages, i, lastAssistantIdx) ==
    IF i < 1 THEN [lastUserIdx |-> 0, lastAssistantIdx |-> lastAssistantIdx]
    ELSE LET msg == messages[i]
             assistantIdx == IF msg.role = "assistant" /\ lastAssistantIdx = 0
                             THEN i ELSE lastAssistantIdx
         IN  IF msg.role = "user" /\ assistantIdx # 0
             THEN [lastUserIdx |-> i, lastAssistantIdx |-> assistantIdx]
             ELSE ScanExchange(messages, i - 1, assistantIdx)

NoExchange == [found |-> FALSE, userMessage |-> Message(0, "", <<>>),
               assistantMessage |-> Message(0, "", <<>>)]

\* part_002:83-106
getLatestExchange(messages) ==
    LET idx == ScanExchange(messages, Len(messages), 0)
    IN  IF idx.lastUserIdx = 0 \/ idx.lastAssistantIdx = 0 THEN NoExchange
        ELSE [found |-> TRUE, userMessage |-> messages[idx.lastUserIdx],
              assistantMessage |-> messages[idx.lastAssistantIdx]]

\* an entry of syncedSessions; topicId 0 stands for null
NoEntry == [present |-> FALSE, topicId |-> 0, pending |-> FALSE]

\* part_002:132
CreatedEntry == [present |-> TRUE, topicId |-> 0, pending |-> TRUE]

\* part_002:189
LinkedEntry(topicId) == [present |-> TRUE, topicId |-> topicId, pending |-> FALSE]

\* an entry of lastPostedContent
NoPosted == [present |-> FALSE, userContent |-> <<>>, assistantContent |-> <<>>]

Posted(userContent, assistantContent) ==
    [present |-> TRUE, userContent |-> userContent, assistantContent |-> assistantContent]

\* an invocation of the event hook and its locals
NoEvent ==
    [pc |-> "idle", event |-> Event("", NoSession, NoSession), sessionId |-> NoSession,
     found |-> FALSE, userContent |-> <<>>, assistantContent |-> <<>>, messageId |-> 0,
     topicId |-> 0, post |-> "none", log |-> <<>>, messages |-> <<>>]

\* the invocation has returned: its locals are gone
Returned == [NoEvent EXCEPT !.pc = "done"]

\* what an idle event saw and did, for the history
NoSummary == [idle |-> FALSE, found |-> FALSE, userContent |-> <<>>,
              assistantContent |-> <<>>, create |-> FALSE, post |-> "none",
              messages |-> <<>>, messageId |-> 0]

SummaryOf(r) ==
    [idle |-> TRUE, found |-> r.found, userContent |-> r.userContent,
     assistantContent |-> r.assistantContent,
     create |-> \E i \in 1..Len(r.log) : r.log[i].what = SYNCSESSION,
     post |-> r.post, messages |-> r.messages, messageId |-> r.messageId]

\* an idle event for the session has been handled
NoteIdle(r) ==
    [syncHist EXCEPT ![r.sessionId] =
        [@ EXCEPT !.prev = syncHist[r.sessionId].last, !.last = SummaryOf(r)]]

\* another event for the session has been handled
NoteOther(sessionId) ==
    IF sessionId = NoSession THEN syncHist
    ELSE [syncHist EXCEPT ![sessionId] = [@ EXCEPT !.prev = NoSummary, !.last = NoSummary]]

InitPlugin ==
    /\ syncedSessions = [s \in SyncSessions |-> NoEntry]
    /\ lastPostedContent = [s \in SyncSessions |-> NoPosted]
    /\ ev = [e \in EvSlots |-> NoEvent]
    /\ syncHist = [s \in SyncSessions |->
                     [prev |-> NoSummary, last |-> NoSummary, posted |-> NoPosted,
                      raced |-> FALSE]]
    /\ nEvents = 0

\* part_002:109-117: the hook is invoked with an event and waits for its log call
EventArrive(e, event) ==
    /\ e \in scenario.hooks
    /\ ev[e].pc \in {"idle", "done"}
    /\ nEvents < MaxEvents
    /\ nEvents' = nEvents + 1
    /\ ev' = [ev EXCEPT ![e] = [NoEvent EXCEPT !.pc = "start", !.event = event]]
    /\ UNCHANGED <<botVars, syncedSessions, lastPostedContent, syncHist>>

\* HandleCreated that asks for the topic at once
HandleCreated_Eager(e) ==
    /\ ev[e].pc = "start"
    /\ ev[e].event.type = "session.created"
    /\ LET session == ev[e].event.session
       IN  /\ syncedSessions' = IF session = NoSession THEN syncedSessions
                                ELSE [syncedSessions EXCEPT ![session] = CreatedEntry]
           /\ syncHist' = NoteOther(session)
           /\ ev' = [ev EXCEPT ![e] =
                       IF session = NoSession THEN Returned
                       ELSE Issue([@ EXCEPT !.pc = "idle.create", !.sessionId = session],
                                  "postSync", SYNCSESSION,
                                  [sessionId |-> session, title |-> DEFAULTTITLE])]
    /\ UNCHANGED <<botVars, lastPostedContent, nEvents>>

\* part_002:119-133: session.created
HandleCreated(e) ==
    /\ ev[e].pc = "start"
    /\ ev[e].event.type = "session.created"
    /\ LET session == ev[e].event.session
       IN  /\ syncedSessions' = IF session = NoSession THEN syncedSessions
                                ELSE [syncedSessions EXCEPT ![session] = CreatedEntry]
           /\ syncHist' = NoteOther(session)
    /\ ev' = [ev EXCEPT ![e] = Returned]
    /\ UNCHANGED <<botVars, lastPostedContent, nEvents>>

\* an invocation for an idle event of the session waits for the answer of a
\* network call (the message list, the create-topic or the post request)
Suspended(sessionId) ==
    \E g \in EvSlots :
        ev[g].pc \in {"idle.list", "idle.create", "idle.post"} /\ ev[g].sessionId = sessionId

\* part_002:209-216: session.deleted
HandleDeleted(e) ==
    /\ ev[e].pc = "start"
    /\ ev[e].event.type = "session.deleted"
    /\ LET sessionId == ev[e].event.sessionId
       IN  IF sessionId # NoSession
           THEN /\ syncedSessions' = [syncedSessions EXCEPT ![sessionId] = NoEntry]
                /\ lastPostedContent' = [lastPostedContent EXCEPT ![sessionId] = NoPosted]
                /\ syncHist' = [syncHist EXCEPT ![sessionId] =
                                  [prev |-> NoSummary, last |-> NoSummary,
                                   posted |-> NoPosted,
                                   raced |-> Suspended(sessionId)]]
           ELSE /\ UNCHANGED <<syncedSessions, lastPostedContent>>
                /\ syncHist' = NoteOther(ev[e].event.session)
    /\ ev' = [ev EXCEPT ![e] = Returned]
    /\ UNCHANGED <<botVars, nEvents>>

\* part_002:119-217: an event of another type passes all three tests
HandleOther(e) ==
    /\ ev[e].pc = "start"
    /\ ev[e].event.type \notin {"session.created", "session.idle", "session.deleted"}
    /\ ev' = [ev EXCEPT ![e] = Returned]
    /\ UNCHANGED <<botVars, syncedSessions, lastPostedContent, syncHist, nEvents>>

\* part_002:136-149: session.idle: the session id is taken from the event and
\* the messages of the session are asked for
IdleStart(e) ==
    /\ ev[e].pc = "start"
    /\ ev[e].event.type = "session.idle"
    /\ LET sessionId == IF ev[e].event.sessionId # NoSession THEN ev[e].event.sessionId
                        ELSE ev[e].event.session
       IN  ev' = [ev EXCEPT ![e] =
                    IF sessionId = NoSession THEN Returned
                    ELSE Issue([@ EXCEPT !.pc = "idle.list", !.sessionId = sessionId],
                               "message.list", "", sessionId)]
    /\ UNCHANGED <<botVars, syncedSessions, lastPostedContent, syncHist, nEvents>>

\* the data of the post of an exchange (part_002:197-203)
MessageData(r, topicId) ==
    [sessionId |-> r.sessionId, topicId |-> topicId, userContent |-> r.userContent,
     assistantContent |-> r.assistantContent, messageId |-> r.messageId]

\* IdleListReturn without the dedup test of part_002:161-166
IdleListReturn_NoDedup(e, messages) ==
    /\ ev[e].pc = "idle.list"
    /\ LET exchange == getLatestExchange(messages)
           userContent == extractMessageContent(exchange.userMessage)
           assistantContent == extractMessageContent(exchange.assistantMessage)
           r == [ev[e] EXCEPT !.found = exchange.found, !.userContent = userContent,
                              !.assistantContent = assistantContent,
                              !.messageId = exchange.assistantMessage.id,
                              !.messages = messages]
           syncState == syncedSessions[r.sessionId]
           topicName == IF userContent # <<>>
                        THEN SubSeq(userContent, 1, Min(50, Len(userContent)))
                        ELSE DEFAULTTITLE
           skip == \/ messages = <<>>
                   \/ ~exchange.found
                   \/ userContent = <<>> /\ assistantContent = <<>>
       IN  IF skip
           THEN /\ ev' = [ev EXCEPT ![e] = Returned]
                /\ syncHist' = NoteIdle(r)
           ELSE /\ ev' = [ev EXCEPT ![e] =
                            IF ~syncState.present \/ syncState.topicId = 0
                            THEN Issue([r EXCEPT !.pc = "idle.create"], "postSync",
                                       SYNCSESSION,
                                       [sessionId |-> r.sessionId, title |-> topicName])
                            ELSE Issue([r EXCEPT !.pc = "idle.post",
                                                 !.topicId = syncState.topicId],
                                       "postSync", SYNCMESSAGE,
                                       MessageData(r, syncState.topicId))]
                /\ UNCHANGED syncHist
    /\ UNCHANGED <<botVars, syncedSessions, lastPostedContent, nEvents>>

\* part_002:149-186: the messages of the session are there: the latest exchange
\* and its contents, the dedup test, the topic of the session
IdleListReturn(e, messages) ==
    /\ ev[e].pc = "idle.list"
    /\ LET exchange == getLatestExchange(messages)
           userContent == extractMessageContent(exchange.userMessage)
           assistantContent == extractMessageContent(exchange.assistantMessage)
           r == [ev[e] EXCEPT !.found = exchange.found, !.userContent = userContent,
                              !.assistantContent = assistantContent,
                              !.messageId = exchange.assistantMessage.id,
                              !.messages = messages]
           lastPosted == lastPostedContent[r.sessionId]
           syncState == syncedSessions[r.sessionId]
           topicName == IF userContent # <<>>
                        THEN SubSeq(userContent, 1, Min(50, Len(userContent)))
                        ELSE DEFAULTTITLE
           skip == \/ messages = <<>>
                   \/ ~exchange.found
                   \/ userContent = <<>> /\ assistantContent = <<>>
                   \/ /\ lastPosted.present
                      /\ lastPosted.userContent = userContent
                      /\ lastPosted.assistantContent = assistantContent
       IN  IF skip
           THEN /\ ev' = [ev EXCEPT ![e] = Returned]
                /\ syncHist' = NoteIdle(r)
           ELSE /\ ev' = [ev EXCEPT ![e] =
                            IF ~syncState.present \/ syncState.topicId = 0
                            THEN Issue([r EXCEPT !.pc = "idle.create"], "postSync",
                                       SYNCSESSION,
                                       [sessionId |-> r.sessionId, title |-> topicName])
                            ELSE Issue([r EXCEPT !.pc = "idle.post",
                                                 !.topicId = syncState.topicId],
                                       "postSync", SYNCMESSAGE,
                                       MessageData(r, syncState.topicId))]
                /\ UNCHANGED syncHist
    /\ UNCHANGED <<botVars, syncedSessions, lastPostedContent, nEvents>>

\* what postSync('/sync/session') returns: null when the request or the parsing
\* of its answer failed, else the answer, with a topicId or without (0)
TopicResults == {[null |-> TRUE, topicId |-> 0], [null |-> FALSE, topicId |-> 0]}
                    \cup {[null |-> FALSE, topicId |-> t] : t \in TopicIds}

\* IdleCreateReturn without the return of part_002:191-193
IdleCreateReturn_NoAbort(e, result) ==
    /\ ev[e].pc = "idle.create"
    /\ LET r == ev[e]
       IN  /\ syncedSessions' = IF ~result.null /\ result.topicId # 0
                                THEN [syncedSessions EXCEPT ![r.sessionId] =
                                        LinkedEntry(result.topicId)]
                                ELSE syncedSessions
           /\ ev' = [ev EXCEPT ![e] =
                       Issue([r EXCEPT !.pc = "idle.post", !.topicId = result.topicId],
                             "postSync", SYNCMESSAGE, MessageData(r, result.topicId))]
           /\ UNCHANGED syncHist
    /\ UNCHANGED <<botVars, lastPostedContent, nEvents>>

\* part_002:182-203: the create-topic request returned
IdleCreateReturn(e, result) ==
    /\ ev[e].pc = "idle.create"
    /\ LET r == ev[e]
       IN  IF ~result.null /\ result.topicId # 0
           THEN /\ syncedSessions' = [syncedSessions EXCEPT ![r.sessionId] =
                                        LinkedEntry(result.topicId)]
                /\ ev' = [ev EXCEPT ![e] =
                            Issue([r EXCEPT !.pc = "idle.post", !.topicId = result.topicId],
                                  "postSync", SYNCMESSAGE, MessageData(r, result.topicId))]
                /\ UNCHANGED syncHist
           ELSE /\ ev' = [ev EXCEPT ![e] = Returned]
                /\ syncHist' = NoteIdle(r)
                /\ UNCHANGED syncedSessions
    /\ UNCHANGED <<botVars, lastPostedContent, nEvents>>

\* IdlePostReturn with the post repeated once after a failure
IdlePostReturn_Retry(e, ok) ==
    /\ ev[e].pc = "idle.post"
    /\ IF ~ok /\ Cardinality({i \in 1..Len(ev[e].log) : ev[e].log[i].what = SYNCMESSAGE}) = 1
       THEN /\ ev' = [ev EXCEPT ![e] = Issue(@, "postSync", SYNCMESSAGE,
                                             MessageData(@, @.topicId))]
            /\ UNCHANGED <<lastPostedContent, syncHist>>
       ELSE LET r == [ev[e] EXCEPT !.post = IF ok THEN "ok" ELSE "failed"]
                pair == Posted(r.userContent, r.assistantContent)
            IN  /\ lastPostedContent' = [lastPostedContent EXCEPT ![r.sessionId] = pair]
                /\ ev' = [ev EXCEPT ![e] = Returned]
                /\ syncHist' = [NoteIdle(r) EXCEPT ![r.sessionId].posted =
                                   IF ok THEN pair ELSE @]
    /\ UNCHANGED <<botVars, syncedSessions, nEvents>>

\* part_002:197-206: postSync('/sync/message') returned, with an answer (ok) or
\* with null after a failure it has logged; the pair is recorded as posted
IdlePostReturn(e, ok) ==
    /\ ev[e].pc = "idle.post"
    /\ LET r == [ev[e] EXCEPT !.post = IF ok THEN "ok" ELSE "failed"]
           pair == Posted(r.userContent, r.assistantContent)
       IN  /\ lastPostedContent' = [lastPostedContent EXCEPT ![r.sessionId] = pair]
           /\ ev' = [ev EXCEPT ![e] = Returned]
           /\ syncHist' = [NoteIdle(r) EXCEPT ![r.sessionId].posted =
                              IF ok THEN pair ELSE @]
    /\ UNCHANGED <<botVars, syncedSessions, nEvents>>

-----------------------------------------------------------------------------
(* Runs *)

File(content) == [exists |-> TRUE, content |-> content]

NoFile == [exists |-> FALSE, content |-> <<>>]

\* "A=1\nTELEGRAM_ALLOWED_USERS=0\nB=2"
FileZero == File(<<"A", "=", "1", NL>> \o KEYEQ \o <<"0", NL, "B", "=", "2">>)

\* "TELEGRAM_ALLOWED_USERS= 7 \n"
FileOne == File(KEYEQ \o <<" ", "7", " ", NL>>)

\* "TELEGRAM_ALLOWED_USERS=7, 42"
FileTwo == File(KEYEQ \o <<"7", ",", " ", "4", "2">>)

\* what opencode.session.prompt can answer
ErrStr == Payload("err-str", <<>>, <<"b", "a", "d">>)

ErrObj == Payload("err-obj", <<>>, <<"n", "o", " ", "\"", "k", "\"">>)

Hi == <<"h", "i">>

\* what opencode.session.prompt answers in most runs: short texts of every shape
PromptResults ==
    {[kind |-> "throw", payload |-> NoPayload],
     [kind |-> "inband", payload |-> ErrStr],
     [kind |-> "inband", payload |-> ErrObj],
     [kind |-> "data", payload |-> NoPayload],
     [kind |-> "data", payload |-> Payload("parts", <<>>, <<>>)],
     [kind |-> "data", payload |-> Payload("parts", <<Part("tool", <<>>), Part("text", Hi)>>, <<>>)],
     [kind |-> "data", payload |-> Payload("content-string", <<>>, <<" ">>)]}

\* the response texts of the runs that look at the delivery: of every length
\* around the multiples of maxLen up to MaxChunks of them, of digits (so that no
\* two chunks are alike) or of blanks only
MaxChunks == 2

DigitsText(n) == [i \in 1..n |-> Digits[(i % 7) + 1]]

BlankText(n) == [i \in 1..n |-> " "]

Lengths ==
    {0, 1} \cup UNION {{k * maxLen - 1, k * maxLen, k * maxLen + 1} : k \in 1..MaxChunks}

LongResults ==
    {[kind |-> "throw", payload |-> NoPayload]}
    \cup {[kind |-> "data", payload |-> Payload("content-string", <<>>, DigitsText(n))] :
             n \in Lengths}
    \cup {[kind |-> "data", payload |-> Payload("content-string", <<>>, BlankText(n))] :
             n \in {1, maxLen + 1}}
    \cup {[kind |-> "data",
           payload |-> Payload("parts", <<Part("text", DigitsText(maxLen)),
                                          Part("text", DigitsText(1))>>, <<>>)]}

\* the two answers that tell a failed prompt from an answered one
PlainResults ==
    {[kind |-> "throw", payload |-> NoPayload],
     [kind |-> "data", payload |-> Payload("content-string", <<>>, Hi)]}

ResultsOf(texts) ==
    IF texts = "long" THEN LongResults
    ELSE IF texts = "plain" THEN PlainResults
    ELSE PromptResults

AllKinds == MessageListeners \cup {"callback"}

InitWith(files, slots, kinds, items, chats, dates, texts, hooks) ==
    /\ envFile \in files
    /\ envBefore = envFile
    /\ allowedUsers = ParseAllowedUsers(DotenvValue(envFile))
    /\ proc = "running"
    /\ userSessions = [c \in Chats |-> NoSession]
    /\ userModels = [c \in Chats |-> NoModel]
    /\ modelIndex = <<>>
    /\ hs = [h \in Slots |-> Idle]
    /\ hist = [c \in Chats |-> [overlap |-> FALSE, items |-> 0, first |-> 0,
                                creates |-> 0, created |-> 0, newCmd |-> FALSE,
                                prompted |-> {}, shown |-> <<>>]]
    /\ calls = [made |-> {}, sessions |-> 0, first |-> 0, firstUser |-> NoFrom]
    /\ nItems = 0
    /\ scenario = [slots |-> slots, kinds |-> kinds, items |-> items,
                   chats |-> chats, dates |-> dates, texts |-> texts, hooks |-> hooks]
    /\ InitPlugin

\* a run whose event hook is invoked for one event at a time
InitRun(files, slots, kinds, items, chats, dates, texts) ==
    InitWith(files, slots, kinds, items, chats, dates, texts, {1})

\* one update at a time, of every kind, with every allow-list
Init == InitRun({NoFile, FileZero, FileOne, FileTwo}, {1}, AllKinds, MaxItems,
                Chats, Dates, "short")

Arrive ==
    \E h \in Slots :
        /\ Running /\ Free(h) /\ h \in scenario.slots /\ nItems < scenario.items
        /\ \/ \E kind \in MessageListeners \cap scenario.kinds :
                 \E arg \in ArgsOf(kind), user \in Users \cup {NoFrom},
                    chat \in scenario.chats, date \in scenario.dates :
                    Dispatch(h, kind, user, chat, date, arg)
           \/ \E user \in Users, chat \in scenario.chats, data \in CallbackData :
                 DispatchCallback(h, user, chat, data)

Authorize ==
    \/ \E h \in Slots, ok \in BOOLEAN : AuthFirstReturn(h, ok)
    \/ \E h \in Slots, ok \in BOOLEAN : AuthUnauthReturn(h, ok)

Commands ==
    \/ \E h \in Slots : StartHelpListener(h)
    \/ \E h \in Slots : NewListener(h)
    \/ \E h \in Slots, ok \in BOOLEAN : NewNoticeReturn(h, ok)
    \/ \E h \in Slots, ok \in BOOLEAN : NewCreateReturn(h, ok)
    \/ \E h \in Slots : SessionsListener(h)
    \/ \E h \in Slots, ok \in BOOLEAN, empty \in BOOLEAN : SessionsListReturn(h, ok, empty)
    \/ \E h \in Slots : ModelListener(h)
    \/ \E h \in Slots, ok \in BOOLEAN : TrySendReturn(h, ok)

Replies ==
    \/ \E h \in Slots, ok \in BOOLEAN, catalog \in Catalogs : ProvidersReturn(h, ok, catalog)
    \/ \E h \in Slots, ok \in BOOLEAN : CallbackAnswerReturn(h, ok)
    \/ \E h \in Slots, ok \in BOOLEAN : BareReplyReturn(h, ok)

Media ==
    \/ \E h \in Slots, configured \in BOOLEAN : MediaListener(h, configured)
    \/ \E h \in Slots : VideoListener(h)
    \/ \E h \in Slots, ok \in BOOLEAN : VideoProgressReturn(h, ok)
    \/ \E h \in Slots, ok \in BOOLEAN, now \in Ticks : DownloadReturn(h, ok, now)
    \/ \E h \in Slots, ok \in BOOLEAN, t \in Transcripts : VoiceTranscribeReturn(h, ok, t)
    \/ \E h \in Slots, ok \in BOOLEAN : VoiceShownReturn(h, ok)
    \/ \E h \in Slots, ok \in BOOLEAN, n \in {0, 1, MaxFrames} : VideoExtractReturn(h, ok, n)
    \/ \E h \in Slots, ok \in BOOLEAN : VideoEditReturn(h, ok)
    \/ \E h \in Slots, ok \in BOOLEAN : VideoDelProgReturn(h, ok)
    \/ \E h \in Slots, ok \in BOOLEAN : VideoCatchDeleteReturn(h, ok)

Chat ==
    \/ \E h \in Slots : MessageListener(h)
    \/ \E h \in Slots : GetOrCreateSession(h)
    \/ \E h \in Slots, ok \in BOOLEAN : SessionCreateReturn(h, ok)
    \/ \E h \in Slots, ok \in BOOLEAN : TypingReturn(h, ok)
    \/ \E h \in Slots, ok \in BOOLEAN : SwpCreateReturn(h, ok)
    \/ \E h \in Slots, res \in ResultsOf(scenario.texts) : SwpPromptReturn(h, res)
    \/ \E h \in Slots, ok \in BOOLEAN : SwpDeleteReturn(h, ok)
    \/ \E h \in Slots, ok \in BOOLEAN : SwpCatchDeleteReturn(h, ok)
    \/ \E h \in Slots, ok \in BOOLEAN : DeliverSendReturn(h, ok)
    \/ \E h \in Slots, ok \in BOOLEAN : ErrSendReturn(h, ok)

Next == Arrive \/ Authorize \/ Commands \/ Replies \/ Media \/ Chat

Spec == Init /\ [][Next]_vars

\* A run that starts with an empty allow-list, with overlapping listener
\* invocations.  No invocation gets past checkUserAuthorized, so the listeners'
\* bodies (Commands, Media, Chat) have no step in such a run.
InitBoot == InitRun({NoFile, FileZero}, Slots, {"message"}, MaxBootItems, Chats,
                    {botStartTime - 1, botStartTime}, "short")

ArriveBoot ==
    \E h \in Slots :
        /\ Running /\ Free(h) /\ h \in scenario.slots /\ nItems < scenario.items
        /\ \E kind \in MessageListeners \cap scenario.kinds :
              \E user \in Users \cup {NoFrom}, chat \in scenario.chats,
                 date \in scenario.dates :
                 Dispatch(h, kind, user, chat, date, "text")

NextBoot == ArriveBoot \/ Authorize

SpecBoot == InitBoot /\ [][NextBoot]_vars

\* A run of one chat: messages, media and /new of two allowed users, one after
\* the other
ChatKinds == {"message", "voice", "photo", "video", "new"}

InitChat == InitRun({FileTwo}, {1}, ChatKinds, MaxChatItems, {1}, {botStartTime},
                    "short")

ArriveChat ==
    \E h \in Slots :
        /\ Running /\ Free(h) /\ h \in scenario.slots /\ nItems < scenario.items
        /\ \E kind \in MessageListeners \cap scenario.kinds :
              \E arg \in (IF kind = "message" THEN {"text"} ELSE ArgsOf(kind)),
                 user \in Users, chat \in scenario.chats, date \in scenario.dates :
                 Dispatch(h, kind, user, chat, date, arg)

NewCommand ==
    \/ \E h \in Slots : NewListener(h)
    \/ \E h \in Slots, ok \in BOOLEAN : NewNoticeReturn(h, ok)
    \/ \E h \in Slots, ok \in BOOLEAN : NewCreateReturn(h, ok)
    \/ \E h \in Slots, ok \in BOOLEAN : TrySendReturn(h, ok)
    \/ \E h \in Slots, ok \in BOOLEAN : BareReplyReturn(h, ok)

NextChat == ArriveChat \/ NewCommand \/ Media \/ Chat

SpecChat == InitChat /\ [][NextChat]_vars

\* A run of one text message or one photo of an allowed user, whose response is
\* one of the long texts (the voice listener delivers as the message listener
\* does, the video listener as the photo listener does)
DeliverKinds == {"message", "photo"}

InitDeliver == InitRun({FileTwo}, {1}, DeliverKinds, 1, {1}, {botStartTime}, "long")

ArriveDeliver ==
    \E h \in Slots :
        /\ Running /\ Free(h) /\ h \in scenario.slots /\ nItems < scenario.items
        /\ \E kind \in MessageListeners \cap scenario.kinds, chat \in scenario.chats,
              date \in scenario.dates :
              Dispatch(h, kind, 7, chat, date, IF kind = "message" THEN "text" ELSE "")

NextDeliver ==
    \/ ArriveDeliver
    \/ \E h \in Slots : MediaListener(h, TRUE)
    \/ \E h \in Slots, ok \in BOOLEAN, now \in Ticks : DownloadReturn(h, ok, now)
    \/ Chat

SpecDeliver == InitDeliver /\ [][NextDeliver]_vars

\* A run for every configuration file of at most MaxLines lines, each with
\* both line endings and with and without an ending of its last line
MaxLines == 2

MaxEnvItems == 1

OtherLine == <<"A", "=", "1">>

EnvLines ==
    {OtherLine,
     <<"#">> \o KEYEQ \o <<"5">>,
     KEYEQ,
     KEYEQ \o <<"0">>,
     KEYEQ \o <<"7">>,
     <<" ">> \o KEYEQ \o <<"0">>,
     KEY \o <<" ", "=", "0">>}

RECURSIVE LinesUpTo(_)
LinesUpTo(n) ==
    IF n = 0 THEN {<<>>}
    ELSE LET shorter == LinesUpTo(n - 1)
         IN  shorter \cup {Append(ls, l) : ls \in shorter, l \in EnvLines}

EnvFiles ==
    {NoFile} \cup
    {File(JoinWith(ls, eol) \o (IF last /\ ls # <<>> THEN eol ELSE <<>>)) :
        ls \in LinesUpTo(MaxLines), eol \in {<<NL>>, <<CR, NL>>}, last \in BOOLEAN}

InitEnv == InitRun(EnvFiles, {1}, {"message"}, MaxEnvItems, {1}, {botStartTime},
                   "short")

NextEnv == ArriveBoot \/ Authorize

SpecEnv == InitEnv /\ [][NextEnv]_vars

\* A run with one video of an allowed user, in which extractFrames is followed
\* event by event
InitFrames == InitRun({FileTwo}, {1}, {"video"}, 1, {1}, {botStartTime}, "short")

ArriveFrames ==
    \E h \in Slots :
        /\ Running /\ Free(h) /\ h \in scenario.slots /\ nItems < scenario.items
        /\ \E chat \in scenario.chats, date \in scenario.dates :
              Dispatch(h, "video", 7, chat, date, "")

ExtractFrames ==
    \/ \E h \in Slots, videoDuration \in Durations : ExtractFramesStart(h, videoDuration)
    \/ \E h \in Slots : FfmpegError(h)
    \/ \E h \in Slots, matched \in BOOLEAN, currentTimeMs \in OutTimes, dt \in Delays :
          FfmpegData(h, matched, currentTimeMs, dt)
    \/ \E h \in Slots, code \in {"0", "1"}, n \in {0, 1, MaxFrames} : FfmpegExit(h, code, n)
    \/ \E h \in Slots, n \in {0, 1, MaxFrames} : FfmpegTimeout(h, n)
    \/ \E h \in Slots, dt \in Delays : FfmpegClose(h, dt)
    \/ \E h \in Slots : ExtractFramesReturn(h)

VideoSteps ==
    \/ \E h \in Slots : VideoListener(h)
    \/ \E h \in Slots, ok \in BOOLEAN : VideoProgressReturn(h, ok)
    \/ \E h \in Slots, ok \in BOOLEAN, now \in Ticks : DownloadReturn(h, ok, now)
    \/ \E h \in Slots, ok \in BOOLEAN : VideoEditReturn(h, ok)
    \/ \E h \in Slots, ok \in BOOLEAN : VideoDelProgReturn(h, ok)
    \/ \E h \in Slots, ok \in BOOLEAN : VideoCatchDeleteReturn(h, ok)

ChatSteps ==
    \/ \E h \in Slots : GetOrCreateSession(h)
    \/ \E h \in Slots, ok \in BOOLEAN : SessionCreateReturn(h, ok)
    \/ \E h \in Slots, ok \in BOOLEAN : TypingReturn(h, ok)
    \/ \E h \in Slots, ok \in BOOLEAN : SwpCreateReturn(h, ok)
    \/ \E h \in Slots, res \in ResultsOf(scenario.texts) : SwpPromptReturn(h, res)
    \/ \E h \in Slots, ok \in BOOLEAN : SwpDeleteReturn(h, ok)
    \/ \E h \in Slots, ok \in BOOLEAN : SwpCatchDeleteReturn(h, ok)
    \/ \E h \in Slots, ok \in BOOLEAN : DeliverSendReturn(h, ok)
    \/ \E h \in Slots, ok \in BOOLEAN : ErrSendReturn(h, ok)

NextFrames == ArriveFrames \/ ExtractFrames \/ VideoSteps \/ ChatSteps

SpecFrames == InitFrames /\ [][NextFrames]_vars

\* A run of two chats whose voice messages and videos are handled side by side,
\* from the arrival of the update to the point where the listener has written
\* its scratch files and hands over to the session registry (or has failed)
MaxMediaItems == 2

InitMedia == InitRun({FileTwo}, Slots, {"voice", "video"}, MaxMediaItems, Chats,
                     {botStartTime}, "plain")

ArriveMedia ==
    \E h \in Slots :
        /\ Running /\ Free(h) /\ h \in scenario.slots /\ nItems < scenario.items
        /\ \E kind \in scenario.kinds, chat \in scenario.chats, date \in scenario.dates :
              Dispatch(h, kind, 7, chat, date, "")

NextMedia ==
    \/ ArriveMedia
    \/ \E h \in Slots, configured \in BOOLEAN : MediaListener(h, configured)
    \/ \E h \in Slots : VideoListener(h)
    \/ \E h \in Slots, ok \in BOOLEAN : VideoProgressReturn(h, ok)
    \/ \E h \in Slots, ok \in BOOLEAN, now \in Ticks : DownloadReturn(h, ok, now)
    \/ \E h \in Slots, ok \in BOOLEAN, t \in Transcripts : VoiceTranscribeReturn(h, ok, t)
    \/ \E h \in Slots, ok \in BOOLEAN : VoiceShownReturn(h, ok)
    \/ \E h \in Slots, ok \in BOOLEAN, n \in {0, 1, MaxFrames} : VideoExtractReturn(h, ok, n)
    \/ \E h \in Slots, ok \in BOOLEAN : VideoEditReturn(h, ok)
    \/ \E h \in Slots, ok \in BOOLEAN : VideoCatchDeleteReturn(h, ok)
    \/ \E h \in Slots, ok \in BOOLEAN : ErrSendReturn(h, ok)
    \/ \E h \in Slots, ok \in BOOLEAN : BareReplyReturn(h, ok)
    \/ \E h \in Slots, ok \in BOOLEAN : TrySendReturn(h, ok)

SpecMedia == InitMedia /\ [][NextMedia]_vars

\* A run of the sync plugin: events of two sessions, handled one after the other
InitSync == InitRun({FileTwo}, {1}, {}, 0, {1}, {botStartTime}, "short")

NextSync ==
    \/ \E e \in EvSlots, event \in Events : EventArrive(e, event)
    \/ \E e \in EvSlots : HandleCreated(e)
    \/ \E e \in EvSlots : HandleDeleted(e)
    \/ \E e \in EvSlots : HandleOther(e)
    \/ \E e \in EvSlots : IdleStart(e)
    \/ \E e \in EvSlots, messages \in MessageLists : IdleListReturn(e, messages)
    \/ \E e \in EvSlots, result \in TopicResults : IdleCreateReturn(e, result)
    \/ \E e \in EvSlots, ok \in BOOLEAN : IdlePostReturn(e, ok)

SpecSync == InitSync /\ [][NextSync]_vars

\* A run of the plugin whose hook is invoked for an event while an earlier
\* invocation still waits for a call: created, idle and deleted events of one
\* session
InitHooks == InitWith({FileTwo}, {1}, {}, 0, {1}, {botStartTime}, "short", EvSlots)

HookEvents ==
    {Event(type, 1, NoSession) : type \in {"session.idle", "session.deleted"}}
        \cup {Event("session.created", NoSession, 1)}

HookLists == {<<UserHi, AssistantYo>>, <<UserHi, AssistantYo, UserLong, AssistantOk>>}

NextHooks ==
    \/ \E e \in EvSlots, event \in HookEvents : EventArrive(e, event)
    \/ \E e \in EvSlots : HandleCreated(e)
    \/ \E e \in EvSlots : HandleDeleted(e)
    \/ \E e \in EvSlots : IdleStart(e)
    \/ \E e \in EvSlots, messages \in HookLists : IdleListReturn(e, messages)
    \/ \E e \in EvSlots, result \in TopicResults : IdleCreateReturn(e, result)
    \/ \E e \in EvSlots, ok \in BOOLEAN : IdlePostReturn(e, ok)

SpecHooks == InitHooks /\ [][NextHooks]_vars

\* A run of two chats that look at the catalog, select models and send texts
MaxModelItems == 3

ModelKinds == {"model", "models", "message", "callback"}

InitModel == InitRun({FileTwo}, {1}, ModelKinds, MaxModelItems, Chats, {botStartTime},
                     "plain")

ArriveModel ==
    \E h \in Slots :
        /\ Running /\ Free(h) /\ h \in scenario.slots /\ nItems < scenario.items
        /\ \/ \E kind \in MessageListeners \cap scenario.kinds :
                 \E arg \in (IF kind = "message" THEN {"text"} ELSE ArgsOf(kind)),
                    chat \in scenario.chats, date \in scenario.dates :
                    Dispatch(h, kind, 7, chat, date, arg)
           \/ \E chat \in scenario.chats, data \in CallbackData :
                 DispatchCallback(h, 7, chat, data)

NextModel ==
    \/ ArriveModel
    \/ \E h \in Slots : ModelListener(h)
    \/ \E h \in Slots : MessageListener(h)
    \/ Replies
    \/ ChatSteps

SpecModel == InitModel /\ [][NextModel]_vars

\* A run of one chat whose text messages are handled while earlier ones are
\* still in flight
MaxRaceItems == 2

InitRace == InitRun({FileTwo}, Slots, {"message"}, MaxRaceItems, {1}, {botStartTime},
                    "plain")

ArriveRace ==
    \E h \in Slots :
        /\ Running /\ Free(h) /\ h \in scenario.slots /\ nItems < scenario.items
        /\ \E chat \in scenario.chats, date \in scenario.dates :
              Dispatch(h, "message", 7, chat, date, "text")

NextRace ==
    \/ ArriveRace
    \/ \E h \in Slots : MessageListener(h)
    \/ ChatSteps

SpecRace == InitRace /\ [][NextRace]_vars

\* the steps of the text listener invocation of slot h after its start: every
\* one is the return of a call the invocation waits for, or runs at once
TextSteps(h) ==
    \/ MessageListener(h)
    \/ GetOrCreateSession(h)
    \/ \E ok \in BOOLEAN : SessionCreateReturn(h, ok)
    \/ \E ok \in BOOLEAN : TypingReturn(h, ok)
    \/ \E ok \in BOOLEAN : SwpCreateReturn(h, ok)
    \/ \E res \in ResultsOf(scenario.texts) : SwpPromptReturn(h, res)
    \/ \E ok \in BOOLEAN : SwpDeleteReturn(h, ok)
    \/ \E ok \in BOOLEAN : SwpCatchDeleteReturn(h, ok)
    \/ \E ok \in BOOLEAN : DeliverSendReturn(h, ok)
    \/ \E ok \in BOOLEAN : ErrSendReturn(h, ok)

\* The same run where every call an invocation waits for returns or fails in
\* the end, and the event loop runs every continuation that is ready
SpecRaceLive == SpecRace /\ \A h \in Slots : WF_vars(TextSteps(h))

\* A run of the bot and of the plugin side by side: text messages of one chat,
\* idle events of one session, every answer of the backend and of the endpoints
InitCore == InitRun({FileTwo}, {1}, {"message"}, MaxItems, {1}, {botStartTime}, "short")

ArriveCore ==
    \E h \in Slots :
        /\ Running /\ Free(h) /\ h \in scenario.slots /\ nItems < scenario.items
        /\ \E chat \in scenario.chats, date \in scenario.dates :
              Dispatch(h, "message", 7, chat, date, "text")

CoreLists == {<<UserHi>>, <<UserHi, AssistantYo>>}

NextCore ==
    \/ ArriveCore
    \/ \E h \in Slots : MessageListener(h)
    \/ ChatSteps
    \/ \E e \in EvSlots : EventArrive(e, Event("session.idle", 1, NoSession))
    \/ \E e \in EvSlots : IdleStart(e)
    \/ \E e \in EvSlots, messages \in CoreLists : IdleListReturn(e, messages)
    \/ \E e \in EvSlots, result \in TopicResults : IdleCreateReturn(e, result)
    \/ \E e \in EvSlots, ok \in BOOLEAN : IdlePostReturn(e, ok)

SpecCore == InitCore /\ [][NextCore]_vars

-----------------------------------------------------------------------------
(* Authorization                                                           *)

\* the allow-list the next run will load from the configuration file
Persisted == ParseAllowedUsers(DotenvValue(envFile))

\* C1: in a run whose loaded allow-list is empty, the first message that is not
\* older than the start of the process and carries a user id makes that user
\* the only member of the persisted allow-list and the process exits: when the
\* process has exited the persisted list is that user alone, and the listener
\* invocation of that message ends in no other way than the exit, whatever the
\* interleaving with other invocations and whatever the outcome of its notice.
C1_FirstMessageBootstraps ==
    (Len(allowedUsers) = 0 /\ calls.first # 0) =>
        /\ proc = "exited" => Persisted = <<StringOf(calls.firstUser)>>
        /\ \A h \in Slots :
              hs[h].seq = calls.first => hs[h].pc \in {"auth.first", "exit"}

\* the listener invocations that begin with checkUserAuthorized
Checked(h) == hs[h].kind \in MessageListeners

Stale(h) == Checked(h) /\ hs[h].date < botStartTime

\* C2: a message older than the start of the process (no date counts as 0) is
\* rejected by checkUserAuthorized with no side effect: every step that touches
\* the invocation of such a message leaves it rejected as stale with nothing
\* sent, and leaves the configuration file, the process and the three registry
\* maps as they were, whatever the allow-list holds.
C2_StaleRejectedWithoutEffect ==
    [][\A h \in Slots :
          (hs'[h] # hs[h] /\ hs'[h].kind \in MessageListeners
                          /\ hs'[h].date < botStartTime) =>
              /\ hs'[h].authz = "stale"
              /\ hs'[h].pc = "done"
              /\ hs'[h].log = <<>>
              /\ UNCHANGED <<envFile, proc, userSessions, userModels, modelIndex>>]_vars

\* a stale message of a user, met by an empty allow-list
C2_Witness ==
    \E h \in Slots :
        /\ Stale(h) /\ hs[h].authz = "stale"
        /\ hs[h].date = botStartTime - 1 /\ hs[h].user # NoFrom
        /\ Len(allowedUsers) = 0

\* String(userId) is a member of the allow-list
Listed(userId) ==
    userId # NoFrom /\ \E i \in 1..Len(allowedUsers) : allowedUsers[i] = StringOf(userId)

EffectOps ==
    {"session.create", "session.prompt", "session.list", "config.providers",
     "userSessions.set", "userModels.set"}

HasEffect(h) == \E i \in 1..Len(hs[h].log) : hs[h].log[i].op \in EffectOps

\* C4: every inbound item of every kind (text, command, voice, photo, video,
\* button press) is authorized before it has any effect: an invocation that
\* called the backend or wrote the session map or the model map is one whose
\* authorization check returned allowed.
C4_NoEffectBeforeAuthorization ==
    \A h \in Slots : HasEffect(h) => hs[h].authz = "allowed"

\* C5: a run that started with an empty allow-list is fail-stop: in none of its
\* states has the backend been called, and the session map and the model map
\* are empty.
C5_EmptyAllowListRunIsFailStop ==
    Len(allowedUsers) = 0 =>
        /\ calls.made = {}
        /\ \A c \in Chats : userSessions[c] = NoSession /\ userModels[c] = NoModel

-----------------------------------------------------------------------------
(* The bootstrap write                                                     *)

\* the text of the file before and after the write, the id written
OldContent == IF envBefore.exists THEN envBefore.content ELSE <<>>

Written == \E h \in Slots : hs[h].pc = "exit"

WrittenId == StringOf(hs[CHOOSE h \in Slots : hs[h].pc = "exit"].user)

\* a line that begins, in its first column, with TELEGRAM_ALLOWED_USERS=
KeyLineAt(s, p) ==
    /\ p \in 1..Len(s)
    /\ p = 1 \/ IsLineTerminator(s[p - 1])
    /\ StartsWithAt(s, p, KEYEQ)

\* s[p..q-1] is a whole line from p on: no line terminator in it, one after it
LineEndsAt(s, p, q) ==
    /\ q \in p..(Len(s) + 1)
    /\ \A i \in p..(q - 1) : ~IsLineTerminator(s[i])
    /\ q = Len(s) + 1 \/ IsLineTerminator(s[q])

\* the first such line is replaced by the key and the id, all the rest kept
ReplacedInPlace(old, new, id) ==
    \E p \in 1..Len(old) :
        /\ KeyLineAt(old, p)
        /\ \A p0 \in 1..(p - 1) : ~KeyLineAt(old, p0)
        /\ \E q \in p..(Len(old) + 1) :
              /\ LineEndsAt(old, p, q)
              /\ new = SubSeq(old, 1, p - 1) \o KEYEQ \o id \o Drop(old, q)

\* the old text is kept whole and followed by new lines only: an ending of the
\* last line, the comment, the key with the id
AppendedTo(old, new, id) ==
    /\ Len(new) > Len(old)
    /\ SubSeq(new, 1, Len(old)) = old
    /\ SplitOn(Drop(new, Len(old) + 1), NL) = <<<<>>, COMMENT, KEYEQ \o id, <<>>>>

LinesOf(s) == SplitOn(DotenvNewlines(s), NL)

-----------------------------------------------------------------------------
(* The session registry                                                    *)

\* the items of the chat came one after the other, and none was /new
Sequential(c) == ~hist[c].overlap /\ ~hist[c].newCmd

Called(h, op) == \E i \in 1..Len(hs[h].log) : hs[h].log[i].op = op

\* C7 (as amended): get-or-create of a session is idempotent per chat: for
\* items of any kind that come one after the other in the same chat, from any
\* allowed users, with no /new among them, the backend creates at most one
\* conversation (create is called again only while none is stored, that is
\* after it failed), the session map holds a handle exactly when one was
\* created, and every prompt of the chat is for that stored handle.
C7_OneSessionPerChat ==
    \A c \in Chats :
        Sequential(c) =>
            /\ hist[c].created <= 1
            /\ hist[c].created = 1 <=> userSessions[c] # NoSession
            /\ hist[c].prompted \subseteq ({userSessions[c]} \ {NoSession})
            /\ \A h \in Slots :
                  (hs[h].chat = c /\ Called(h, "session.prompt")) =>
                      hs[h].sessionId = userSessions[c]

\* a second item of the chat, of another user, prompted the session that the
\* first item created
C7_Witness ==
    \E c \in Chats, h \in Slots :
        /\ Sequential(c) /\ hist[c].items = 2 /\ hist[c].creates = 1
        /\ hist[c].created = 1
        /\ hs[h].chat = c /\ hs[h].seq # hist[c].first /\ hs[h].user = 42
        /\ hs[h].kind = "video"
        /\ Called(h, "session.prompt") /\ ~Called(h, "session.create")
        /\ hs[h].sessionId = userSessions[c]

\* C7 (as stated): under the same conditions the create-conversation call is
\* made exactly once, by the first item of the chat: never twice, by no other
\* item, and once the first item is over it has been made.
C7_CreateCalledExactlyOnce ==
    \A c \in Chats :
        Sequential(c) =>
            /\ hist[c].creates <= 1
            /\ hist[c].items >= 2 => hist[c].creates = 1
            /\ \A h \in Slots :
                  (hs[h].chat = c /\ Called(h, "session.create")) =>
                      hs[h].seq = hist[c].first

-----------------------------------------------------------------------------
(* The request executor                                                    *)

\* where the listener invocation called opencode.session.prompt (0: nowhere)
PromptAt(h) ==
    LET at == {i \in 1..Len(hs[h].log) : hs[h].log[i].op = "session.prompt"}
    IN  IF at = {} THEN 0 ELSE CHOOSE i \in at : TRUE

\* streamWithProgress was entered and has returned or thrown
SwpExited(h) ==
    /\ PromptAt(h) # 0
    /\ hs[h].pc \notin {"swp.prompt", "swp.delete", "swp.catch.delete"}

\* C8: streamWithProgress never leaks its progress message: the send that
\* creates it comes before the backend call, and on every path on which the
\* message was created (normal return, backend call throwing, in-band error) a
\* delete of that very message has been issued, after the backend call, by the
\* time the function has returned or thrown.
C8_ProgressMessageDeleted ==
    \A h \in Slots :
        LET log == hs[h].log
            id  == hs[h].progressMessageId
        IN  /\ PromptAt(h) # 0 =>
                  /\ PromptAt(h) > 1
                  /\ log[PromptAt(h) - 1] = Op("sendMessage", "processing", <<>>)
            /\ (PromptAt(h) # 0 /\ id # <<>>) => id = <<h, PromptAt(h) - 1>>
            /\ (SwpExited(h) /\ id # <<>>) =>
                  \E j \in (PromptAt(h) + 1)..Len(log) :
                      log[j] = Op("deleteMessage", "processing", id)

\* the backend call threw, the progress message had been created, and the
\* listener has finished
C8_Witness ==
    \E h \in Slots :
        /\ SwpExited(h) /\ hs[h].progressMessageId # <<>>
        /\ hs[h].result.kind = "throw" /\ hs[h].pc = "done"

\* JSON.parse of the inside of a JSON string
RECURSIVE JsonUnescape(_)
JsonUnescape(s) ==
    IF s = <<>> THEN <<>>
    ELSE IF Head(s) = "\\" /\ Len(s) >= 2
    THEN <<IF s[2] = "n" THEN NL ELSE s[2]>> \o JsonUnescape(Tail(Tail(s)))
    ELSE <<Head(s)>> \o JsonUnescape(Tail(s))

IsJsonStringOf(json, text) ==
    /\ Len(json) >= 2
    /\ Head(json) = "\"" /\ json[Len(json)] = "\""
    /\ JsonUnescape(SubSeq(json, 2, Len(json) - 1)) = text

MessageKey == <<"{", "\"", "m", "e", "s", "s", "a", "g", "e", "\"", ":">>

\* the message is "OpenCode API error: " followed by the JSON text of the payload
CarriesPayload(message, err) ==
    /\ StartsWithAt(message, 1, APIERROR)
    /\ LET json == Drop(message, Len(APIERROR) + 1)
       IN  IF err.shape = "err-str" THEN IsJsonStringOf(json, err.text)
           ELSE /\ StartsWithAt(json, 1, MessageKey)
                /\ json[Len(json)] = "}"
                /\ IsJsonStringOf(SubSeq(json, Len(MessageKey) + 1, Len(json) - 1), err.text)

EndsWith(s, suffix) ==
    Len(suffix) <= Len(s) /\ Drop(s, Len(s) - Len(suffix) + 1) = suffix

DeliveryNotices == {"no-response", "empty-response", "null-response", "no-text"}

IsDeliverySend(e) ==
    e.op = "sendMessage" /\ e.what \in {"chunk"} \cup DeliveryNotices

\* C9: when the backend answers the prompt with an in-band error,
\* streamWithProgress returns no payload: nothing is delivered as a response,
\* the failure it signals has a message that carries the error payload whole
\* (as its JSON text, after "OpenCode API error: "), and the calling listener
\* sends that message to the chat in its error notice.
C9_InBandErrorSurfaced ==
    \A h \in Slots :
        hs[h].result.kind = "inband" =>
            /\ \A i \in 1..Len(hs[h].log) : ~IsDeliverySend(hs[h].log[i])
            /\ SwpExited(h) => CarriesPayload(hs[h].error, hs[h].result.payload)
            /\ hs[h].pc \in {"err.send", "done"} =>
                  LET last == hs[h].log[Len(hs[h].log)]
                  IN  /\ last.op = "sendMessage" /\ last.what = "error"
                      /\ EndsWith(last.arg, hs[h].error)

\* a photo's prompt was answered with the error object whose message holds
\* quotes, and the error notice was sent
C9_Witness ==
    \E h \in Slots :
        /\ hs[h].result = [kind |-> "inband", payload |-> ErrObj]
        /\ hs[h].kind = "photo" /\ hs[h].pc = "done" /\ ~hs[h].unhandled

-----------------------------------------------------------------------------
(* Delivery                                                                *)

\* the messages the delivery of a response has sent so far
Delivered(h) == SelectSeq(hs[h].log, IsDeliverySend)

RECURSIVE Concat(_)
Concat(msgs) == IF msgs = <<>> THEN <<>> ELSE Head(msgs).arg \o Concat(Tail(msgs))

CeilDiv(n, d) == (n + d - 1) \div d

\* C10: for a response text of length L the delivery emits ceil(L/4000)
\* messages, each of at most 4000 characters and all but the last of exactly
\* 4000, one after the other in ascending order of offset, and their
\* concatenation in the order sent is the text: what has been sent is at every
\* moment the first chunks of the text, and all of them once the listener is done.
C10_ChunksDeliverTheText ==
    \A h \in Slots :
        hs[h].result.kind = "data" =>
            LET text == ExtractText(hs[h].result.payload)
                sent == Delivered(h)
            IN  /\ \A i \in 1..Len(sent) :
                      /\ Len(sent[i].arg) <= maxLen
                      /\ i < Len(sent) => Len(sent[i].arg) = maxLen
                      /\ sent[i].arg = SubSeq(text, (i - 1) * maxLen + 1,
                                              (i - 1) * maxLen + Len(sent[i].arg))
                /\ hs[h].pc = "done" =>
                      /\ Len(sent) = CeilDiv(Len(text), maxLen)
                      /\ Concat(sent) = text

\* the chunk messages the delivery loop has issued so far
ChunkSends(h) == SelectSeq(hs[h].log, LAMBDA e : e.op = "sendMessage" /\ e.what = "chunk")

\* C11: chunk delivery is best-effort per chunk: once the delivery loop has
\* started on a response (its first chunk was issued), every chunk of the
\* response has been issued by the time the listener is done, whether or not
\* the send of an earlier chunk failed.
C11_LaterChunksStillSent ==
    \A h \in Slots :
        (hs[h].pc = "done" /\ hs[h].result.kind = "data" /\ ChunkSends(h) # <<>>) =>
            Len(ChunkSends(h)) = Len(ChunksOf(ExtractText(hs[h].result.payload)))

-----------------------------------------------------------------------------
(* Scratch files                                                           *)

\* the voice listener wrote its scratch file and called the transcription
VoiceFileWritten(h) ==
    hs[h].kind = "voice" /\ Called(h, "transcriptions.create")

\* C12: the voice scratch file is deleted on every path after it was written:
\* once the voice listener has finished, after a transcription that succeeded
\* or one that failed, the file no longer exists.
C12_VoiceFileDeletedOnEveryPath ==
    \A h \in Slots :
        (VoiceFileWritten(h) /\ hs[h].pc = "done") => ~hs[h].files.voice

\* JavaScript's test !transcribedText || transcribedText.trim().length === 0
BlankTranscript(text) == \A i \in 1..Len(text) : IsWhiteSpace(text[i])

\* the listener invocation in slot h got a blank transcript
GotBlankTranscript(r) ==
    r.transcription.returned /\ BlankTranscript(r.transcription.text)

\* C13: when the transcript of a voice message is empty or only whitespace, the
\* listener sends the notice that it could not transcribe, as the first call
\* after the transcription, and stops: it creates no session, makes no prompt
\* call, and no step it takes from then on changes the session map.
C13_BlankTranscriptStopsBeforeBackend ==
    /\ [](\A h \in Slots :
            GotBlankTranscript(hs[h]) =>
                /\ \E i \in 2..Len(hs[h].log) :
                      /\ hs[h].log[i].op = "sendMessage"
                      /\ hs[h].log[i].what = "could-not-transcribe"
                      /\ hs[h].log[i - 1].op = "transcriptions.create"
                /\ ~Called(h, "session.create")
                /\ ~Called(h, "session.prompt")
                /\ ~Called(h, "sendChatAction")
                /\ hs[h].sessionId = NoSession)
    /\ [][\A h \in Slots :
            GotBlankTranscript(hs'[h]) => userSessions' = userSessions]_vars

\* a transcript of one blank was answered with the notice and the listener is done
C13_Witness ==
    \E h \in Slots :
        /\ hs[h].transcription = [returned |-> TRUE, text |-> <<" ">>]
        /\ hs[h].pc = "done" /\ ~hs[h].unhandled
        /\ hs[h].error = <<>>

\* the video listener wrote its scratch video file and started the extraction
VideoFileWritten(h) == hs[h].kind = "video" /\ Called(h, "ffmpeg")

\* the listener invocation went through its catch block
EndedThroughFailure(h) == hs[h].pc = "done" /\ hs[h].error # <<>>

\* C14: the video scratch files are cleaned up on failure paths too: when the
\* video listener ends through a failure after the scratch video file was
\* written, the video file, the frame files and the frames directory have been
\* removed.
C14_VideoCleanupOnFailure ==
    \A h \in Slots :
        (VideoFileWritten(h) /\ EndedThroughFailure(h)) => hs[h].files = NoFiles

\* the video listener ran to its end without entering its catch block
VideoSucceeded(h) ==
    /\ VideoFileWritten(h) /\ hs[h].pc = "done"
    /\ hs[h].error = <<>> /\ ~hs[h].unhandled

\* C15: on the success path of the video listener, for every number N >= 1 of
\* frames the subprocess produced (N > 5 included), all N frame files, the
\* frames directory and the scratch video file are absent when the listener
\* returns, and a cleanup error never reaches the user: the last message
\* sent is the response, not an error notice.
C15_VideoCleanupOnSuccess ==
    \A h \in Slots :
        VideoSucceeded(h) =>
            /\ hs[h].files = NoFiles
            /\ IsDeliverySend(hs[h].log[Len(hs[h].log)])

-----------------------------------------------------------------------------
(* Video frames                                                            *)

\* the parts of the prompt the listener invocation submitted
SubmittedParts(h) == hs[h].log[PromptAt(h)].arg.parts

\* C16: the parts submitted for a video of which N frames were extracted are
\* one leading text part followed by min(N, 5) file parts, which are the first
\* five frames in ascending (earliest-first) order; when N = 0 the listener
\* sends an error message and makes no backend call.
C16_VideoPartsAreFirstFiveFrames ==
    \A h \in Slots :
        (hs[h].kind = "video" /\ Called(h, "ffmpeg") /\ hs[h].pc # "video.extract") =>
            LET N == Cardinality(hs[h].files.frames \cup
                                 {hs[h].frameFiles[i] : i \in 1..Len(hs[h].frameFiles)})
            IN  /\ PromptAt(h) # 0 =>
                      LET parts == SubmittedParts(h)
                      IN  /\ N >= 1
                          /\ Len(parts) = 1 + Min(N, 5)
                          /\ parts[1].type = "text"
                          /\ \A i \in 2..Len(parts) :
                                parts[i] = PromptPart("file", i - 1)
                /\ N = 0 =>
                      /\ ~Called(h, "session.create") /\ ~Called(h, "session.prompt")
                      /\ hs[h].error # <<>>
                      /\ hs[h].pc = "done" =>
                            hs[h].log[Len(hs[h].log)].what = "error"

\* six frames were extracted and the prompt was submitted
C16_Witness ==
    \E h \in Slots :
        /\ hs[h].kind = "video" /\ PromptAt(h) # 0
        /\ Len(SubmittedParts(h)) = 6
        /\ 6 \in hs[h].files.frames

\* C17: a frame-extraction subprocess that has not exited when the 60-second
\* timer fires is sent SIGKILL, and extractFrames fails with the timeout error,
\* not with the non-zero-exit error and never with success, whatever the close
\* event of the killed subprocess brings afterwards; the video listener then
\* sends the user its error notice with that failure and calls neither
\* session.create nor session.prompt.
C17_TimeoutKillsAndFails ==
    /\ [][\A h \in Slots :
            (/\ hs[h].ffmpeg.timer = "armed" /\ hs'[h].ffmpeg.timer = "fired"
             /\ hs[h].ffmpeg.child = "running") =>
                /\ hs'[h].ffmpeg.killed
                /\ hs'[h].ffmpeg.child = "exited" /\ hs'[h].ffmpeg.code = "null"
                /\ hs'[h].ffmpeg.promise = Rejected(TIMEDOUT)]_vars
    /\ [](\A h \in Slots :
            hs[h].ffmpeg.killed =>
                /\ hs[h].ffmpeg.promise = Rejected(TIMEDOUT)
                /\ ~Called(h, "session.create") /\ ~Called(h, "session.prompt")
                /\ hs[h].pc # "video.extract" =>
                      hs[h].error = FAILEDTOEXTRACT \o TIMEDOUT
                /\ hs[h].pc = "done" =>
                      LET last == hs[h].log[Len(hs[h].log)]
                      IN  /\ last.op = "sendMessage" /\ last.what = "error"
                          /\ last.arg = ErrorPrefix("video") \o FAILEDTOEXTRACT \o TIMEDOUT)

\* the subprocess ran into the timer after writing a frame, its close event
\* came, and the listener has sent its error notice
C17_Witness ==
    \E h \in Slots :
        /\ hs[h].ffmpeg.killed /\ hs[h].ffmpeg.child = "closed"
        /\ hs[h].files.frames # {}
        /\ hs[h].pc = "done" /\ ~hs[h].unhandled

\* C18: the percentages extractFrames reports to its progress callback form a
\* strictly increasing sequence; as long as the subprocess has not exited,
\* every value reported lies in 0..99; 100 is reported at most once, only
\* after the subprocess has exited, and nothing is reported after it.
C18_ProgressStrictlyIncreasing ==
    \A h \in Slots :
        LET reports == hs[h].ffmpeg.reports
        IN  /\ \A i, j \in 1..Len(reports) :
                  i < j => reports[i].percent < reports[j].percent
            /\ \A i \in 1..Len(reports) :
                  /\ reports[i].percent \in 0..100
                  /\ reports[i].percent = 100 =>
                        /\ i = Len(reports)
                        /\ hs[h].ffmpeg.child = "closed" /\ hs[h].ffmpeg.code = "0"
                  /\ hs[h].ffmpeg.child = "running" => reports[i].percent \in 0..99

\* 0, two values of the progress stream (the second clamped to 99) and 100
\* were reported
C18_Witness ==
    \E h \in Slots :
        LET reports == hs[h].ffmpeg.reports
        IN  /\ Len(reports) = 4
            /\ reports[3].percent = 99 /\ reports[4].percent = 100

-----------------------------------------------------------------------------
(* Sync plugin                                                             *)

\* the last two idle events of the session were handled one after the other,
\* with no other event of the session between them, and saw the same latest
\* exchange
SawSameExchangeTwice(s) ==
    LET first == syncHist[s].prev
        second == syncHist[s].last
    IN  /\ first.idle /\ second.idle
        /\ first.found /\ second.found
        /\ first.userContent = second.userContent
        /\ first.assistantContent = second.assistantContent

\* C19 (as stated): two consecutive idle events of a session that see the
\* identical (userContent, assistantContent) latest exchange result in exactly
\* one post-exchange call, and the second event makes no create-topic and no
\* post call.
C19_IdenticalExchangePostedOnce ==
    \A s \in SyncSessions :
        SawSameExchangeTwice(s) =>
            /\ syncHist[s].prev.post # "none"
            /\ ~syncHist[s].last.create
            /\ syncHist[s].last.post = "none"

\* C19 (as amended): when the first of two consecutive idle events of a session
\* that see the identical latest exchange has posted it (its post call was
\* made and answered), the second event makes no create-topic and no post
\* call: the pair results in exactly one post-exchange call.
C19_PostedExchangeNotPostedAgain ==
    \A s \in SyncSessions :
        (SawSameExchangeTwice(s) /\ syncHist[s].prev.post = "ok") =>
            /\ ~syncHist[s].last.create
            /\ syncHist[s].last.post = "none"

\* an exchange was posted by an idle event and seen again by the next one
C19_Witness ==
    \E s \in SyncSessions :
        /\ SawSameExchangeTwice(s)
        /\ syncHist[s].prev.post = "ok" /\ syncHist[s].prev.create
        /\ syncHist[s].last.userContent # <<>>
        /\ lastPostedContent[s].present

\* C20: the dedup fingerprint of a session is updated only after a successful
\* post: in every state the stored fingerprint is the pair of the most recent
\* post-exchange call that succeeded for the session since it was last deleted
\* (none when no post has succeeded), so an exchange whose post failed is not
\* taken for posted by a later idle event.
C20_FingerprintIsLastSuccessfulPost ==
    \A s \in SyncSessions : lastPostedContent[s] = syncHist[s].posted

-----------------------------------------------------------------------------
(* Sync entries                                                            *)

\* C21: once a topic handle is stored for a conversation, every step leaves the
\* entry with that same handle or removes the entry: no step returns the entry
\* to the no-topic state and no step replaces the handle.
C21_TopicHandleKeptUntilDeleted ==
    [][\A s \in SyncSessions :
          syncedSessions[s].present /\ syncedSessions[s].topicId # 0
            => \/ ~syncedSessions'[s].present
               \/ syncedSessions'[s].topicId = syncedSessions[s].topicId]_vars

\* the conversation an event names, in properties.sessionId or in
\* properties.session.id
Names(event) == IF event.sessionId # NoSession THEN event.sessionId ELSE event.session

\* the step is the handling of a deleted event by invocation e
HandlesDeleted(e) ==
    /\ ev[e].pc = "start"
    /\ ev[e].event.type = "session.deleted"
    /\ ev'[e].pc = "done"

\* C22: when a deleted event that names a conversation has been handled, the
\* conversation has no sync entry and no fingerprint, whatever it had before and
\* whichever field carries the id; the entries and fingerprints of the other
\* conversations are as before.
C22_DeletedRemovesEntryAndFingerprint ==
    [][\A e \in EvSlots :
          HandlesDeleted(e) /\ Names(ev[e].event) # NoSession
            => /\ ~syncedSessions'[Names(ev[e].event)].present
               /\ ~lastPostedContent'[Names(ev[e].event)].present
               /\ \A s \in SyncSessions \ {Names(ev[e].event)} :
                     /\ syncedSessions'[s] = syncedSessions[s]
                     /\ lastPostedContent'[s] = lastPostedContent[s]]_vars

-----------------------------------------------------------------------------
(* The latest exchange                                                     *)

\* the positions of the messages of a role
Positions(messages, role) == {i \in 1..Len(messages) : messages[i].role = role}

Highest(set) == CHOOSE i \in set : \A j \in set : j <= i

\* the position of the last assistant message, 0 without one
LastAssistant(messages) ==
    IF Positions(messages, "assistant") = {} THEN 0
    ELSE Highest(Positions(messages, "assistant"))

\* the position of the nearest user message before position a, 0 without one
NearestUserBefore(messages, a) ==
    IF {i \in Positions(messages, "user") : i < a} = {} THEN 0
    ELSE Highest({i \in Positions(messages, "user") : i < a})

\* the pair (u, a): a the last assistant message, u the nearest user message
\* before it, no assistant message between the two
HasExchange(messages) ==
    /\ LastAssistant(messages) # 0
    /\ NearestUserBefore(messages, LastAssistant(messages)) # 0
    /\ \A i \in Positions(messages, "assistant") :
          ~(NearestUserBefore(messages, LastAssistant(messages)) < i
              /\ i < LastAssistant(messages))

\* invocation e gets the message list of its session in this step
ListReturns(e) == ev[e].pc = "idle.list" /\ ev'[e].pc # "idle.list"

\* what the invocation made of the list: its locals, or its summary when it
\* has returned
MadeOfList(e) ==
    IF ev'[e].pc = "done" THEN syncHist'[ev[e].sessionId].last ELSE ev'[e]

\* C23: getLatestExchange finds an exchange exactly when the list has a last
\* assistant message a and a nearest user message u before it with no assistant
\* message between them, and the exchange is (u, a); without such a pair the idle
\* event returns with no call made and the maps unchanged.
C23_LatestExchangeIsAdjacentPair ==
    [][\A e \in EvSlots :
          ListReturns(e) =>
            LET seen == MadeOfList(e)
                a == LastAssistant(seen.messages)
                u == NearestUserBefore(seen.messages, a)
            IN  /\ seen.found <=> HasExchange(seen.messages)
                /\ seen.found =>
                      /\ seen.messageId = seen.messages[a].id
                      /\ seen.userContent = extractMessageContent(seen.messages[u])
                      /\ seen.assistantContent = extractMessageContent(seen.messages[a])
                /\ ~HasExchange(seen.messages) =>
                      /\ ev'[e].pc = "done"
                      /\ ~seen.create /\ seen.post = "none"
                      /\ syncedSessions' = syncedSessions
                      /\ lastPostedContent' = lastPostedContent]_vars

\* the list has a last assistant message and a user message before it
HasUserBeforeLastAssistant(messages) ==
    /\ LastAssistant(messages) # 0
    /\ NearestUserBefore(messages, LastAssistant(messages)) # 0

\* C23 (amended): getLatestExchange finds an exchange exactly when the list has
\* an assistant message and a user message before the last assistant message;
\* the exchange is (u, a), a the last assistant message and u the nearest user
\* message before a, assistant messages between u and a being passed over.
\* Without such a pair the idle event returns with no call made and the maps
\* unchanged.
C23_LatestExchangeIsLastAssistantNearestUser ==
    [][\A e \in EvSlots :
          ListReturns(e) =>
            LET seen == MadeOfList(e)
                a == LastAssistant(seen.messages)
                u == NearestUserBefore(seen.messages, a)
            IN  /\ seen.found <=> HasUserBeforeLastAssistant(seen.messages)
                /\ seen.found =>
                      /\ seen.messageId = seen.messages[a].id
                      /\ seen.userContent = extractMessageContent(seen.messages[u])
                      /\ seen.assistantContent = extractMessageContent(seen.messages[a])
                /\ ~HasUserBeforeLastAssistant(seen.messages) =>
                      /\ ev'[e].pc = "done"
                      /\ ~seen.create /\ seen.post = "none"
                      /\ syncedSessions' = syncedSessions
                      /\ lastPostedContent' = lastPostedContent]_vars

\* an exchange with an assistant message between its two messages is being
\* posted, and an earlier idle event of a session found no exchange in a list
\* that is not empty
C23_Witness ==
    /\ \E e \in EvSlots :
          /\ ev[e].pc = "idle.post"
          /\ ev[e].found
          /\ HasUserBeforeLastAssistant(ev[e].messages)
          /\ ~HasExchange(ev[e].messages)
    /\ \E s \in SyncSessions :
          /\ syncHist[s].last.idle
          /\ syncHist[s].last.messages # <<>>
          /\ ~syncHist[s].last.found

-----------------------------------------------------------------------------
(* Topic creation                                                          *)

\* the calls of an endpoint in a log
CallsOf(log, what) == {i \in 1..Len(log) : log[i].what = what}

\* the idle event made the create-topic call and no post call
CreationFailed(summary) == summary.idle /\ summary.create /\ summary.post = "none"

\* the title is the first 50 characters of the content, or the default label
IsTitleOf(title, userContent) ==
    IF userContent = <<>> THEN title = DEFAULTTITLE
    ELSE /\ Len(title) = (IF Len(userContent) < 50 THEN Len(userContent) ELSE 50)
         /\ \A i \in 1..Len(title) : title[i] = userContent[i]

\* C24: when the create-topic request of an idle event fails or is answered
\* without topic id, the event returns having made no post call, the fingerprints
\* are unchanged and the entry still has no topic; the next idle event of the
\* conversation that is not skipped requests the topic again. Every post call
\* carries a topic id that the create-topic endpoint has answered. The title of every
\* create-topic request is the first 50 characters of the user content, or the
\* default label when the user content is empty.
C24_FailedCreationAbortsSilently ==
    /\ [][\A e \in EvSlots :
            ev[e].pc = "idle.create" /\ ev'[e].pc = "done"
              => /\ CallsOf(ev[e].log, SYNCMESSAGE) = {}
                 /\ lastPostedContent' = lastPostedContent
                 /\ syncedSessions' = syncedSessions
                 /\ syncedSessions'[ev[e].sessionId].topicId = 0]_vars
    /\ [](\A s \in SyncSessions :
            CreationFailed(syncHist[s].prev) /\ syncHist[s].last.idle
              => \/ syncHist[s].last.create
                 \/ ~syncHist[s].last.found
                 \/ syncHist[s].last.userContent = <<>>
                      /\ syncHist[s].last.assistantContent = <<>>
                 \/ lastPostedContent[s] = Posted(syncHist[s].last.userContent,
                                                  syncHist[s].last.assistantContent))
    /\ [](\A e \in EvSlots : \A i \in CallsOf(ev[e].log, SYNCMESSAGE) :
            ev[e].log[i].arg.topicId \in TopicIds)
    /\ [](\A e \in EvSlots : \A i \in CallsOf(ev[e].log, SYNCSESSION) :
            IsTitleOf(ev[e].log[i].arg.title, ev[e].userContent))

\* after an idle event whose create-topic request failed, the next idle event of
\* the conversation has requested the topic again with a title cut to 50
\* characters, has got it and is posting
C24_Witness ==
    \E e \in EvSlots :
        /\ ev[e].pc = "idle.post"
        /\ CreationFailed(syncHist[ev[e].sessionId].last)
        /\ Len(ev[e].userContent) = 51
        /\ \E i \in CallsOf(ev[e].log, SYNCSESSION) : Len(ev[e].log[i].arg.title) = 50

-----------------------------------------------------------------------------
(* Retries                                                                 *)

\* the calls of an operation in a log
OpsOf(log, op) == {i \in 1..Len(log) : log[i].op = op}

-----------------------------------------------------------------------------
(* Containment of failures                                                 *)

\* the sends of an error notice in a log
ErrorNotices(log) == {i \in 1..Len(log) : log[i].op = "sendMessage" /\ log[i].what = "error"}

\* C26: whatever fails while an item is handled, no error leaves the listener
\* unhandled and the process does not crash, so that the listeners of the other
\* chats go on; an invocation that has ended through its catch block has sent
\* exactly one failure message.
C26_FailureContainedToItem ==
    /\ proc # "crashed"
    /\ \A h \in Slots :
          /\ ~hs[h].unhandled
          /\ hs[h].pc = "done" /\ hs[h].error # <<>>
               => Cardinality(ErrorNotices(hs[h].log)) = 1

-----------------------------------------------------------------------------
(* Model selection                                                         *)

\* invocation h is an explicit selection of a model in chat c: /model with an
\* argument, or the press of a model button
IsSelection(r, c) ==
    /\ r.chat = c
    /\ \/ r.kind = "model" /\ r.arg # ""
       \/ r.kind = "callback" /\ r.arg \in {"m_0", "m_1"}

\* the prompt calls of a log
Prompts(log) == {i \in 1..Len(log) : log[i].op = "session.prompt"}

\* C27: the model entry of a chat changes only in a step of an explicit
\* selection made in that chat (/model with an argument, a model button); every
\* other step (texts, /models, pagination buttons, selections of other chats)
\* leaves it as it is. When the model of a chat is looked up for a prompt and
\* the chat has no entry, the default is taken, and the prompt carries the model
\* that was looked up.
C27_ModelChangesOnlyBySelection ==
    /\ [][\A c \in Chats :
            userModels'[c] # userModels[c]
              => \E h \in Slots : hs'[h] # hs[h] /\ IsSelection(hs'[h], c)]_vars
    /\ [][\A h \in Slots :
            hs[h].pc # "swp.create" /\ hs'[h].pc = "swp.create"
              => hs'[h].userModel = (IF userModels[hs'[h].chat] = NoModel
                                     THEN DefaultModel
                                     ELSE userModels[hs'[h].chat])]_vars
    /\ [](\A h \in Slots : \A i \in Prompts(hs[h].log) :
            hs[h].log[i].arg.model = hs[h].userModel)

\* one chat has selected a model; a prompt of the other chat, which has no
\* entry, is on its way with the default
C27_Witness ==
    \E h \in Slots, c \in Chats :
        /\ hs[h].pc = "swp.prompt"
        /\ hs[h].chat # c
        /\ userModels[c] # NoModel
        /\ userModels[hs[h].chat] = NoModel
        /\ \E i \in Prompts(hs[h].log) : hs[h].log[i].arg.model = DefaultModel

\* the ids of the models of a catalog
IdsOf(catalog) == {catalog[i].id : i \in 1..Len(catalog)}

\* the argument of /model matches the model
Matches(model, modelArg) == model.id = modelArg \/ NameIncludes(model.name, modelArg)

\* the values set in the model map by the calls of a log
ModelSets(log) == {log[i].what : i \in {j \in 1..Len(log) : log[j].op = "userModels.set"}}

\* the values invocation h sets in the model map in this step
StoredNow(h) ==
    IF hs'[h].seq # hs[h].seq THEN ModelSets(hs'[h].log)
    ELSE ModelSets(hs'[h].log) \ ModelSets(hs[h].log)

\* invocation h receives the catalog for a /model command in this step
ModelArgResolved(h) ==
    hs[h].pc = "providers" /\ hs[h].kind = "model" /\ hs'[h].pc # "providers"

\* invocation h starts with the press of a model button in this step
ButtonPressed(h) ==
    hs'[h].seq # hs[h].seq /\ hs'[h].kind = "callback" /\ hs'[h].arg \in {"m_0", "m_1"}

\* C28: a value stored in the model map is, at the step that stores it, the id
\* of an entry of the catalog as last fetched with success; a /model argument
\* that matches no entry of that catalog and a button index outside of the
\* current index leave the model map unchanged.
C28_StoredModelIsInLastCatalog ==
    /\ [][\A c \in Chats :
            userModels'[c] # userModels[c] => userModels'[c] \in IdsOf(modelIndex')]_vars
    /\ [][\A h \in Slots :
            StoredNow(h) # {}
              => /\ StoredNow(h) \subseteq IdsOf(modelIndex')
                 /\ userModels'[hs'[h].chat] \in StoredNow(h)]_vars
    /\ [][\A h \in Slots :
            /\ ModelArgResolved(h)
            /\ \A i \in 1..Len(modelIndex') : ~Matches(modelIndex'[i], hs[h].arg)
            => userModels' = userModels]_vars
    /\ [][\A h \in Slots :
            ButtonPressed(h) /\ CallbackIndex(hs'[h].arg) + 1 > Len(modelIndex)
              => userModels' = userModels]_vars

\* a chat holds a model selected from a catalog that has since been fetched
\* again and come back empty; a model button pressed now finds no entry
C28_Witness ==
    /\ modelIndex = <<>>
    /\ \E c \in Chats : userModels[c] # NoModel
    /\ \E h \in Slots :
          /\ hs[h].kind = "callback"
          /\ hs[h].arg \in {"m_0", "m_1"}
          /\ ModelSets(hs[h].log) = {}
          /\ hs[h].pc = "reply.bare"

-----------------------------------------------------------------------------
(* Overlapping first items of a chat                                       *)

\* invocation h gets its new conversation in this step
ConversationCreated(h) == hs[h].pc = "session.create" /\ hs'[h].pc = "typing"

\* C29: the session map is not locked across the create call. An invocation that
\* found no session and whose create call is answered takes the conversation
\* just created as its own and writes it to the map over whatever is there, and
\* every prompt of an invocation is for the conversation the invocation holds:
\* of two overlapping first items of a chat both create, the map keeps the
\* handle written last and the other invocation prompts its own conversation.
C29_CreateNotLocked ==
    /\ [][\A h \in Slots :
            ConversationCreated(h)
              => /\ calls'.sessions = calls.sessions + 1
                 /\ hs'[h].sessionId = calls'.sessions
                 /\ userSessions'[hs[h].chat] = calls'.sessions]_vars
    /\ [](\A h \in Slots : \A i \in Prompts(hs[h].log) :
            hs[h].log[i].arg.id = hs[h].sessionId)

\* two invocations of one chat have each created a conversation and prompted
\* it; the map holds the handle of the one whose create call returned last
C29_Witness ==
    \E g \in Slots, h \in Slots :
        /\ g # h
        /\ hs[g].chat = hs[h].chat
        /\ Called(g, "session.create") /\ Called(h, "session.create")
        /\ Prompts(hs[g].log) # {} /\ Prompts(hs[h].log) # {}
        /\ hs[g].sessionId < hs[h].sessionId
        /\ userSessions[hs[h].chat] = hs[h].sessionId
        /\ \E i \in Prompts(hs[g].log) :
              hs[g].log[i].arg.id # userSessions[hs[g].chat]

\* invocation h receives the answer of a catalog fetch in this step
CatalogReturns(h) == hs[h].pc = "providers" /\ hs'[h].pc # "providers"

\* the keyboards sent by the calls of a log
Keyboards(log) == {i \in 1..Len(log) : log[i].what = "keyboard"}

\* C30: a model button stands for an index only. The index is one for the whole
\* process: it changes only when a catalog fetch returns, whichever chat asked,
\* and the keyboard a /models command sends lists the index as that fetch left
\* it. A button press whose index is in the current index sets the chat's model
\* to the entry now at that index, whatever the keyboard of the chat shows
\* there.
C30_ButtonResolvedAgainstCurrentIndex ==
    /\ [][modelIndex' # modelIndex => \E h \in Slots : CatalogReturns(h)]_vars
    /\ [][\A h \in Slots :
            CatalogReturns(h) /\ hs[h].kind = "models"
              => \A i \in Keyboards(hs'[h].log) : hs'[h].log[i].arg = modelIndex']_vars
    /\ [][\A h \in Slots :
            ButtonPressed(h) /\ CallbackIndex(hs'[h].arg) + 1 <= Len(modelIndex)
              => userModels'[hs'[h].chat] =
                    modelIndex[CallbackIndex(hs'[h].arg) + 1].id]_vars

\* the button pressed in a chat has set a model that is not the one the
\* keyboard of the chat shows at this index: the catalog was fetched again in
\* between and came back in another order
C30_Witness ==
    \E h \in Slots :
        /\ hs[h].kind = "callback"
        /\ hs[h].arg \in {"m_0", "m_1"}
        /\ Len(hist[hs[h].chat].shown) = 2
        /\ ModelSets(hs[h].log) # {}
        /\ hist[hs[h].chat].shown[CallbackIndex(hs[h].arg) + 1].id \notin ModelSets(hs[h].log)
        /\ userModels[hs[h].chat] \in ModelSets(hs[h].log)


-----------------------------------------------------------------------------
\* C31: the scratch paths of media jobs (voice or video) of different chats
\* that run at the same time never coincide, two jobs that read the same
\* clock tick included: the file paths and the frames directory paths of the
\* two jobs are distinct
C31_ScratchPathsOfChatsDistinct ==
    \A g \in Slots, h \in Slots :
        (/\ g # h
         /\ ~Free(g) /\ ~Free(h)
         /\ hs[g].kind \in {"voice", "video"} /\ hs[h].kind \in {"voice", "video"}
         /\ hs[g].chat # hs[h].chat)
        => hs[g].paths \cap hs[h].paths = {}


\* C32: within one video job, any two edits of the progress message that the
\* progress callback issues, whatever their status (starting, progress, done),
\* are at least 2 seconds (2000 ms) apart
C32_ProgressEditsTwoSecondsApart ==
    \A h \in Slots :
        LET edits == hs[h].ffmpeg.edits
        IN  \A i \in 1..Len(edits), j \in 1..Len(edits) :
                i < j => edits[j].at - edits[i].at >= 2000


\* the video listener invocation of slot h has created its progress message:
\* the send at part_003:953 returned and the download was started
VideoProgressCreated(h) ==
    /\ hs[h].kind = "video"
    /\ \E i \in 1..Len(hs[h].log) : hs[h].log[i].op = "download"

\* the positions in the log of slot h of the deletes of the video listener's
\* own progress message
ProgressDeletes(h) ==
    {i \in 1..Len(hs[h].log) :
        hs[h].log[i].op = "deleteMessage" /\ hs[h].log[i].what = "progress"}

\* a video listener that created its progress message has issued a delete of
\* it by the time it returns
C33_DeleteIssuedBeforeReturn ==
    \A h \in Slots :
        (VideoProgressCreated(h) /\ hs[h].pc = "done") => ProgressDeletes(h) # {}

\* the delete is issued before the request executor sends its own progress
\* message, and the listener's own edit of the message (step 3) is not issued
\* after a delete
C33_DeleteBeforeExecutorProgress ==
    \A h \in Slots :
        VideoProgressCreated(h) =>
            \A i \in 1..Len(hs[h].log) :
                /\ (hs[h].log[i].op = "sendMessage" /\ hs[h].log[i].what = "processing")
                   => \E d \in ProgressDeletes(h) : d < i
                /\ hs[h].log[i].op = "editMessageText"
                   => \A d \in ProgressDeletes(h) : i < d

\* once the delete is issued the progress callback issues no edit any more
C33_NoCallbackEditAfterDelete ==
    [][\A h \in Slots :
          (ProgressDeletes(h) # {} /\ hs'[h].seq = hs[h].seq)
          => hs'[h].ffmpeg.edits = hs[h].ffmpeg.edits]_vars

\* C33: the video listener's own progress message is deleted on every exit
\* path: when the listener created the message, a delete of it has been issued
\* by the time the listener returns, on success (before the request executor
\* sends its own progress message) and on every failure, and no edit of the
\* message is issued after its delete
C33_VideoProgressDeletedOnEveryExit ==
    /\ [](C33_DeleteIssuedBeforeReturn /\ C33_DeleteBeforeExecutorProgress)
    /\ C33_NoCallbackEditAfterDelete


\* the hook invocation of slot e handles a session.created event in this step
CreatedHandled(e) ==
    /\ ev[e].pc = "start"
    /\ ev[e].event.type = "session.created"
    /\ ev'[e] # ev[e]

\* C34: handling a created event inserts the entry without a topic for the
\* session and makes no network call (no create-topic request, no post of an
\* exchange, no fetch of messages); only invocations for idle events make
\* calls, and the topic is requested by an idle event that has an exchange to
\* post, the first one after the created event included
C34_CreatedInsertsEntryWithoutCalls ==
    /\ [][\A e \in EvSlots :
            CreatedHandled(e) =>
                LET session == ev[e].event.session
                IN  /\ ev'[e] = Returned
                    /\ lastPostedContent' = lastPostedContent
                    /\ syncedSessions' =
                          IF session = NoSession THEN syncedSessions
                          ELSE [syncedSessions EXCEPT ![session] = CreatedEntry]]_vars
    /\ [](\A e \in EvSlots :
            /\ ev[e].log # <<>> => ev[e].event.type = "session.idle"
            /\ CallsOf(ev[e].log, SYNCSESSION) # {}
               => /\ ev[e].found
                  /\ ev[e].userContent # <<>> \/ ev[e].assistantContent # <<>>)
    /\ [][\A e \in EvSlots :
            (/\ ev[e].pc = "idle.list"
             /\ syncedSessions[ev[e].sessionId] = CreatedEntry
             /\ ev'[e].pc \notin {"idle.list", "done"})
            => /\ ev'[e].pc = "idle.create"
               /\ CallsOf(ev'[e].log, SYNCSESSION) # {}]_vars

\* an idle event asks for the topic of a session whose created event left the
\* entry without a topic
C34_Witness ==
    \E e \in EvSlots :
        /\ ev[e].pc = "idle.create"
        /\ ev[e].event.type = "session.idle"
        /\ syncedSessions[ev[e].sessionId] = CreatedEntry


\* the positions in the log of slot h of the deletes of the request executor's
\* progress message
ExecutorDeletes(h) ==
    {i \in 1..Len(hs[h].log) :
        hs[h].log[i].op = "deleteMessage" /\ hs[h].log[i].what = "processing"}

\* the request executor of slot h has returned or thrown
ExecutorLeft(h) ==
    /\ hs[h].progressMessageId # <<>>
    /\ hs[h].pc \in {"deliver.send", "err.send", "video.catch.delete", "done"}

\* C35: the request executor issues exactly one delete for its progress
\* message on each of its exit paths (normal return, a prompt that throws, an
\* error reported in band): one by the time it is left, and never a second one
C35_ExecutorDeletesProgressOnce ==
    \A h \in Slots :
        /\ Cardinality(ExecutorDeletes(h)) <= 1
        /\ ExecutorLeft(h) => Cardinality(ExecutorDeletes(h)) = 1


\* the two idle events handled last for the session saw the same exchange
SameExchangeTwice(s) ==
    LET a == syncHist[s].prev
        b == syncHist[s].last
    IN  /\ a.idle /\ b.idle
        /\ a.found /\ b.found
        /\ a.messageId = b.messageId
        /\ a.userContent = b.userContent
        /\ a.assistantContent = b.assistantContent

\* C36: whatever the interleaving of two invocations of the hook for idle
\* events of the same session that see the same latest exchange, the exchange
\* is posted once: the two do not both make the post-exchange call, and they
\* do not both make the create-topic call
C36_ExchangePostedOnceUnderInterleaving ==
    \A s \in SyncSessions :
        SameExchangeTwice(s) =>
            /\ ~(syncHist[s].prev.post # "none" /\ syncHist[s].last.post # "none")
            /\ ~(syncHist[s].prev.create /\ syncHist[s].last.create
                 /\ syncHist[s].prev.post # "none")


\* no invocation of the hook for the session is in flight
Quiet(s) ==
    \A e \in EvSlots :
        ev[e].pc \in {"idle", "done"}
        \/ (ev[e].sessionId # s /\ ev[e].event.sessionId # s /\ ev[e].event.session # s)

\* C37: when a deleted event of a session is handled while an invocation for
\* an idle event of the same session waits for a network call, then once both
\* have finished the session has neither an entry in syncedSessions nor a
\* fingerprint in lastPostedContent
C37_DeletedDuringIdleLeavesNothing ==
    \A s \in SyncSessions :
        (syncHist[s].raced /\ Quiet(s))
        => ~syncedSessions[s].present /\ ~lastPostedContent[s].present


\* the create-conversation call of the invocation of slot h has failed: the
\* call is in the log and what follows it is not the store of its session
CreateFailed(h) ==
    \E i \in 1..(Len(hs[h].log) - 1) :
        /\ hs[h].log[i].op = "session.create"
        /\ hs[h].log[i + 1].op # "userSessions.set"

\* the create-conversation call of slot h fails in this step
CreateFails(h) ==
    /\ hs[h].pc \in {"new.create", "session.create"}
    /\ hs'[h].seq = hs[h].seq
    /\ ~CreateFailed(h) /\ CreateFailed(h)'

\* C38: a create-conversation call that fails leaves the session map as it
\* was (after /new the chat keeps the session it had, on a first message the
\* chat still has none) and no prompt is sent by the invocation; the
\* invocation sends the error notice to the chat
C38_FailedCreateLeavesSessionMap ==
    /\ [][\A h \in Slots : CreateFails(h) => userSessions' = userSessions]_vars
    /\ [](\A h \in Slots :
            CreateFailed(h) =>
                /\ OpsOf(hs[h].log, "session.prompt") = {}
                /\ hs[h].kind # "new" => userSessions[hs[h].chat] = NoSession
                /\ hs[h].pc = "done" => ErrorNotices(hs[h].log) # {})

\* a /new command of a chat that has a session has ended after its create
\* call failed
C38_Witness ==
    \E h \in Slots :
        /\ hs[h].kind = "new"
        /\ CreateFailed(h)
        /\ hs[h].pc = "done"
        /\ userSessions[hs[h].chat] # NoSession


\* the text listener of slot h handles the n-th item, a text message of an
\* allowed user that is not older than the start of the process
TextAccepted(h, n) ==
    /\ hs[h].seq = n
    /\ hs[h].kind = "message"
    /\ hs[h].arg # ""
    /\ hs[h].pc = "authorized"

\* the invocation for the n-th item has issued a send with a terminal outcome:
\* a chunk of the response, the no-response notice or an error notice; and the
\* progress message it created, if any, has had its delete issued
TerminalOutcome(h, n) ==
    /\ hs[h].seq = n
    /\ \E i \in 1..Len(hs[h].log) :
          /\ hs[h].log[i].op = "sendMessage"
          /\ hs[h].log[i].what \in {"chunk", "no-response", "error"}
    /\ hs[h].progressMessageId # <<>> => ExecutorDeletes(h) # {}

\* C39: every text message of an allowed user that is not stale gets a
\* terminal outcome in the end, when every call returns or fails in the end:
\* its invocation issues a send of a response chunk, of the no-response notice
\* or of an error notice, and by then a delete has been issued for every
\* progress message it created
C39_TextMessageGetsTerminalOutcome ==
    \A h \in Slots : \A n \in 1..MaxRaceItems :
        TextAccepted(h, n) ~> TerminalOutcome(h, n)


\* C40: the bootstrap write and the next load are a round trip: whatever the
\* configuration file was when the allow-list loaded from it was empty (absent,
\* without the key, the key commented out, empty or 0, the key on more than
\* one line), after the bootstrap write for the user u the allow-list the next
\* start of the process loads is u alone
C40_BootstrapRoundTrip ==
    \A h \in Slots :
        (hs[h].pc = "exit" /\ Len(allowedUsers) = 0)
        => Persisted = <<IdText(hs[h].user)>>

=============================================================================
